---- MODULE Spec2Model ----
(***************************************************************************)
(* Event harvesting pipeline of where2go-clean: venue scrapers, the        *)
(* in-run deduplication, the direct-store publisher, the venue linker and  *)
(* the text normalisation they rely on.                                    *)
(*                                                                         *)
(* Text is modelled as a sequence of one-character strings.  Nullable      *)
(* scalar columns use the string NULL for Python's None.                   *)
(***************************************************************************)
EXTENDS Integers, Sequences, FiniteSets, TLC

VARIABLES
    \* ---- normalize_venue_name harness
    orig_name,      \* the name first handed to normalize_venue_name
    name,           \* a spelling of the same name (case / whitespace edited)
    norm_key,       \* normalize_venue_name(name), "" before the call
    norm_key2,      \* normalize_venue_name(norm_key)
    norm_pc,        \* "input" | "normalized"
    \* ---- FluccWanneScraper.scrape_events
    pages,          \* what _scrape_page returned for each of EVENTS_PAGES
    all_events,     \* the concatenation, in page order
    unique_events,  \* the list scrape_events returns
    dedup_pc,       \* "start" | "done"
    \* ---- BaseVenueScraper.parse_german_date
    now,            \* datetime.now() as <<year, month, day>>
    date_in,        \* the day and month the listing means, and how it prints them
    date_text,      \* the text handed to parse_german_date
    start_date,     \* its result, <<>> for None
    date_pc,        \* "text" | "parsed" | "title"
    \* ---- the store and one venue's scraper
    scraper,        \* the scraper class of the venue
    listing,        \* what scrape_events extracts from the venue's site
    UNIFIED_PIPELINE_AVAILABLE,
    credentials,    \* "ok" | "missing": the Supabase environment variables
    venues,         \* table venues
    store,          \* table events
    last,           \* the last operation: what was asked and what it reported
    \* ---- concurrent publisher runs
    runs,           \* per run: the store call it is about to make, for which event
    \* ---- fetching
    responses,      \* per URL: what the web answers to successive requests
    site,           \* the events the listing pages of the venues show
    requests,       \* log of the fetches made: URL, attempts, waits, outcome
    results,        \* results[venue_key] of run_all_scrapers.main, in run order
    fetch_pc,       \* index of the next venue of venues_to_scrape
    timeline,       \* the requests of one scrape_events call with their times
    rate_scraper,   \* the scraper that made them
    \* ---- BaseVenueScraper.parse_time
    time_in,        \* the time the listing means, and how it prints it
    time_text,      \* the text handed to parse_time
    start_time,     \* its result, <<>> for None
    time_pc,        \* "text" | "parsed"
    \* ---- extraction
    document,       \* the page: its kind and its cards, lines or rows
    extracted,      \* the events the extraction returns
    extract_pc,     \* "page" | "done"
    \* ---- one publisher run and what it was asked
    asked,          \* the flags and faults of the run, and the store before it
    \* ---- detail pages and selector lists
    detail_in,      \* the list-page item and the detail document, by scraper
    enriched,       \* what the handler returns: the events, or the value selected
    enrich_pc,      \* "listed" | "done"
    \* ---- run records of the scraper backend
    run_table,      \* the scraper_run table: one ScraperRun row per created run
    request,        \* the run_scraper_now request in flight: position, row, response
    wall_clock      \* what datetime.now() returns

normVars == <<orig_name, name, norm_key, norm_key2, norm_pc>>

dedupVars == <<pages, all_events, unique_events, dedup_pc>>

dateVars == <<now, date_in, date_text, start_date, date_pc>>

runVars == <<scraper, listing, UNIFIED_PIPELINE_AVAILABLE, credentials>>

storeVars == <<venues, store, last>>

raceVars == <<runs>>

fetchVars == <<responses, site, requests, results, fetch_pc>>

rateVars == <<timeline, rate_scraper>>

timeVars == <<time_in, time_text, start_time, time_pc>>

extractVars == <<document, extracted, extract_pc>>

pubVars == <<asked>>

enrichVars == <<detail_in, enriched, enrich_pc>>

recordVars == <<run_table, request, wall_clock>>

vars ==
    <<normVars, dedupVars, dateVars, runVars, storeVars, raceVars, fetchVars, rateVars, timeVars, extractVars, pubVars, enrichVars, recordVars>>

NULL == "NULL"

(***************************************************************************)
(* Bounds                                                                  *)
(***************************************************************************)
MaxNameLen == 4

\* events returned by all pages of one scrape_events call
MaxEvents == 3

(***************************************************************************)
(* Characters                                                              *)
(***************************************************************************)
Alphabet == {"a", "A", "b", " ", "\t"}

Whitespace == {" ", "\t"}

IsSpace(c) == c \in Whitespace

LowerLetters ==
    <<"a", "b", "c", "d", "e", "f", "g", "h", "i", "j", "k", "l", "m", "n", "o",
      "p", "q", "r", "s", "t", "u", "v", "w", "x", "y", "z", "ä", "ö", "ü">>

UpperLetters ==
    <<"A", "B", "C", "D", "E", "F", "G", "H", "I", "J", "K", "L", "M", "N", "O",
      "P", "Q", "R", "S", "T", "U", "V", "W", "X", "Y", "Z", "Ä", "Ö", "Ü">>

\* str.lower() / str.upper() on one character, as tables
ToLower == [c \in {UpperLetters[i] : i \in 1..Len(UpperLetters)} |->
               LowerLetters[CHOOSE i \in 1..Len(UpperLetters) : UpperLetters[i] = c]]

ToUpper == [c \in {LowerLetters[i] : i \in 1..Len(LowerLetters)} |->
               UpperLetters[CHOOSE i \in 1..Len(LowerLetters) : LowerLetters[i] = c]]

LowerChar(c) == IF c \in DOMAIN ToLower THEN ToLower[c] ELSE c

UpperChar(c) == IF c \in DOMAIN ToUpper THEN ToUpper[c] ELSE c

IsUpper(c) == LowerChar(c) # c

\* str.lower()
Lower(s) == [i \in 1..Len(s) |-> LowerChar(s[i])]

RECURSIVE LStrip(_)
LStrip(s) == IF s # <<>> /\ IsSpace(Head(s)) THEN LStrip(Tail(s)) ELSE s

RECURSIVE RStrip(_)
RStrip(s) == IF s # <<>> /\ IsSpace(s[Len(s)])
             THEN RStrip(SubSeq(s, 1, Len(s) - 1)) ELSE s

\* str.strip()
Strip(s) == RStrip(LStrip(s))

\* str.split() without arguments: the maximal runs of non-whitespace
RECURSIVE SplitFrom(_, _, _, _)
SplitFrom(s, i, cur, acc) ==
    IF i > Len(s)
    THEN IF cur = <<>> THEN acc ELSE Append(acc, cur)
    ELSE IF IsSpace(s[i])
         THEN SplitFrom(s, i + 1, <<>>, IF cur = <<>> THEN acc ELSE Append(acc, cur))
         ELSE SplitFrom(s, i + 1, Append(cur, s[i]), acc)

Split(s) == SplitFrom(s, 1, <<>>, <<>>)

\* ' '.join(words)
RECURSIVE JoinSpace(_)
JoinSpace(words) ==
    IF words = <<>> THEN <<>>
    ELSE IF Len(words) = 1 THEN words[1]
    ELSE words[1] \o <<" ">> \o JoinSpace(Tail(words))

\* mutant: the name is not lowercased
normalize_no_lower(nm) == IF nm = <<>> THEN <<>> ELSE JoinSpace(Split(Strip(nm)))

\* link_events_to_venue.normalize_venue_name
normalize_venue_name(nm) ==
    IF nm = <<>> THEN <<>> ELSE JoinSpace(Split(Strip(Lower(nm))))

(***************************************************************************)
(* Harness for normalize_venue_name: a name, spellings of it that differ   *)
(* only in letter case and amount of whitespace, and the call.             *)
(***************************************************************************)
RECURSIVE SeqsUpTo(_, _)
SeqsUpTo(S, n) ==
    IF n = 0 THEN {<<>>}
    ELSE LET shorter == SeqsUpTo(S, n - 1)
         IN  shorter \cup {Append(s, c) : s \in {t \in shorter : Len(t) = n - 1}, c \in S}

InsertAt(s, i, c) == SubSeq(s, 1, i - 1) \o <<c>> \o SubSeq(s, i, Len(s))

RemoveAt(s, i) == SubSeq(s, 1, i - 1) \o SubSeq(s, i + 1, Len(s))

\* position i (1..Len+1) is at an end of s or next to a whitespace character
AtWhitespaceRunOrEnd(s, i) ==
    IF i = 1 \/ i = Len(s) + 1 THEN TRUE
    ELSE IsSpace(s[i - 1]) \/ IsSpace(s[i])

NormIdle ==
    /\ orig_name = <<>>
    /\ name = <<>>
    /\ norm_key = <<>>
    /\ norm_key2 = <<>>
    /\ norm_pc = "idle"

NormStart ==
    /\ orig_name \in SeqsUpTo(Alphabet, MaxNameLen)
    /\ name = orig_name
    /\ norm_key = <<>>
    /\ norm_key2 = <<>>
    /\ norm_pc = "input"

\* the same name typed with one letter in the other case
ChangeCase ==
    /\ norm_pc = "input"
    /\ \E i \in 1..Len(name) :
          /\ ~IsSpace(name[i])
          /\ name' = [name EXCEPT ![i] = IF IsUpper(@) THEN LowerChar(@) ELSE UpperChar(@)]
    /\ UNCHANGED <<orig_name, norm_key, norm_key2, norm_pc>>

\* one more whitespace character at an end or inside an existing run
AddWhitespace ==
    /\ norm_pc = "input"
    /\ Len(name) < MaxNameLen
    /\ \E i \in 1..(Len(name) + 1), c \in Whitespace :
          /\ AtWhitespaceRunOrEnd(name, i)
          /\ name' = InsertAt(name, i, c)
    /\ UNCHANGED <<orig_name, norm_key, norm_key2, norm_pc>>

\* one whitespace character less at an end or inside a run of two or more
DropWhitespace ==
    /\ norm_pc = "input"
    /\ \E i \in 1..Len(name) :
          /\ IsSpace(name[i])
          /\ IF i = 1 \/ i = Len(name) THEN TRUE
             ELSE IsSpace(name[i - 1]) \/ IsSpace(name[i + 1])
          /\ name' = RemoveAt(name, i)
    /\ UNCHANGED <<orig_name, norm_key, norm_pc, norm_key2>>

\* key = normalize_venue_name(name), then the key is normalized again
Normalize ==
    /\ norm_pc = "input"
    /\ norm_key' = normalize_venue_name(name)
    /\ norm_key2' = normalize_venue_name(norm_key')
    /\ norm_pc' = "normalized"
    /\ UNCHANGED <<orig_name, name>>

NormNext == ChangeCase \/ AddWhitespace \/ DropWhitespace \/ Normalize

(***************************************************************************)
(* FluccWanneScraper.scrape_events: three listing pages are scraped and    *)
(* the concatenated result is deduplicated by detail URL.                  *)
(***************************************************************************)
Titles == {"t1", "t2"}

Urls == {"u1", "u2"}

\* dates are day numbers; 0 stands for a missing date (None)
NoDate == 0

ScrapedDates == {1, 2}

\* number of entries of FluccWanneScraper.EVENTS_PAGES
NumPages == 3

\* what _scrape_page returns: _parse_event_link gives no event for a link
\* without href and sets detail_url on every event it returns
PageEvents == [title : Titles, date : ScrapedDates, detail_url : Urls]

\* Python truthiness of a URL value
HasUrl(e) == e.detail_url # NULL /\ e.detail_url # ""

\* the ways NumPages pages can return the events evs in this order; a page may
\* repeat a URL, since _scrape_page compares the hrefs before BASE_URL is
\* prefixed to the relative ones
PagesOf(evs) ==
    {<<SubSeq(evs, 1, a), SubSeq(evs, a + 1, b), SubSeq(evs, b + 1, Len(evs))>> :
        a \in 0..Len(evs), b \in 0..Len(evs)}

RECURSIVE ConcatPages(_, _)
ConcatPages(pg, n) == IF n = 0 THEN <<>> ELSE ConcatPages(pg, n - 1) \o pg[n]

\* mutant: the URL is never added to seen_urls
RECURSIVE DedupForgetSeen(_, _, _)
DedupForgetSeen(evs, seen_urls, acc) ==
    IF evs = <<>> THEN acc
    ELSE DedupForgetSeen(Tail(evs), seen_urls, Append(acc, Head(evs)))

\* the loop of scrape_events over all_events (seen_urls, unique_events)
RECURSIVE DedupLoop(_, _, _)
DedupLoop(evs, seen_urls, acc) ==
    IF evs = <<>> THEN acc
    ELSE LET event == Head(evs)
             url   == event.detail_url
         IN  IF HasUrl(event) /\ url \notin seen_urls
             THEN DedupLoop(Tail(evs), seen_urls \cup {url}, Append(acc, event))
             ELSE IF ~HasUrl(event)
                  THEN DedupLoop(Tail(evs), seen_urls, Append(acc, event))
                  ELSE DedupLoop(Tail(evs), seen_urls, acc)

DedupIdle ==
    /\ pages = <<>>
    /\ all_events = <<>>
    /\ unique_events = <<>>
    /\ dedup_pc = "idle"

DedupStart ==
    /\ pages = <<>>
    /\ all_events = <<>>
    /\ unique_events = <<>>
    /\ dedup_pc = "start"

\* scrape_events: every page is scraped (a failed fetch gives an empty list),
\* the lists are concatenated and deduplicated
ScrapeEvents ==
    /\ dedup_pc = "start"
    /\ \E evs \in SeqsUpTo(PageEvents, MaxEvents) :
       \E pg \in PagesOf(evs) :
          /\ pages' = pg
          /\ all_events' = ConcatPages(pg, NumPages)
          /\ unique_events' = DedupLoop(all_events', {}, <<>>)
    /\ dedup_pc' = "done"
    /\ Len(pages') = NumPages

DedupNext == ScrapeEvents

\* index of the first event of evs that carries URL u
FirstWithUrl(evs, u) ==
    CHOOSE i \in 1..Len(evs) :
        /\ evs[i].detail_url = u
        /\ \A k \in 1..(i - 1) : evs[k].detail_url # u

UrlsOf(evs) == {evs[i].detail_url : i \in {k \in 1..Len(evs) : HasUrl(evs[k])}}

\* C3: the deduplicated list holds exactly one event per distinct source URL,
\* that event is the first occurrence in the input, and retained events keep
\* their first-seen relative order.
C3_OnePerUrlFirstSeen ==
    dedup_pc = "done" =>
        /\ UrlsOf(unique_events) = UrlsOf(all_events)
        /\ \A u \in UrlsOf(all_events) :
              /\ Cardinality({j \in 1..Len(unique_events) : unique_events[j].detail_url = u}) = 1
              /\ unique_events[FirstWithUrl(unique_events, u)] = all_events[FirstWithUrl(all_events, u)]
        /\ \A j, k \in 1..Len(unique_events) :
              (j < k /\ HasUrl(unique_events[j]) /\ HasUrl(unique_events[k])) =>
                  FirstWithUrl(all_events, unique_events[j].detail_url)
                      < FirstWithUrl(all_events, unique_events[k].detail_url)

\* two pages repeat a URL with different content, and another URL follows
C3_Witness ==
    /\ dedup_pc = "done"
    /\ Len(unique_events) < Len(all_events)
    /\ Cardinality(UrlsOf(all_events)) = 2
    /\ \E i, k \in 1..Len(all_events) :
          /\ i < k
          /\ HasUrl(all_events[i])
          /\ all_events[i].detail_url = all_events[k].detail_url
          /\ all_events[i] # all_events[k]


(***************************************************************************)
(* BaseVenueScraper.parse_german_date: four regular expressions tried in   *)
(* order on the lower-cased text, year inference, range check, formatting. *)
(***************************************************************************)
Digits == <<"0", "1", "2", "3", "4", "5", "6", "7", "8", "9">>

IsDigit(c) == \E i \in 1..10 : Digits[i] = c

DigitVal(c) == (CHOOSE i \in 1..10 : Digits[i] = c) - 1

\* int(s) for a string of decimal digits
RECURSIVE IntOf(_)
IntOf(s) == IF s = <<>> THEN 0 ELSE 10 * IntOf(SubSeq(s, 1, Len(s) - 1)) + DigitVal(s[Len(s)])

\* f"{n:0{width}d}"
RECURSIVE ZeroPad(_, _)
ZeroPad(n, width) ==
    IF n < 10 /\ width <= 1 THEN <<Digits[n + 1]>>
    ELSE ZeroPad(n \div 10, width - 1) \o <<Digits[(n % 10) + 1]>>

\* \w of the re module: letters, digits and the underscore
IsLetter(c) == \E i \in 1..Len(LowerLetters) : LowerLetters[i] = c \/ UpperLetters[i] = c

IsWordChar(c) == IsLetter(c) \/ IsDigit(c) \/ c = "_"

CharAt(s, i) == IF i >= 1 /\ i <= Len(s) THEN s[i] ELSE ""

\* length of the run of digits / word characters / whitespace starting at i
RECURSIVE DigitRun(_, _)
DigitRun(s, i) == IF i <= Len(s) /\ IsDigit(s[i]) THEN 1 + DigitRun(s, i + 1) ELSE 0

RECURSIVE WordRun(_, _)
WordRun(s, i) == IF i <= Len(s) /\ IsWordChar(s[i]) THEN 1 + WordRun(s, i + 1) ELSE 0

RECURSIVE SpaceRun(_, _)
SpaceRun(s, i) == IF i <= Len(s) /\ IsSpace(s[i]) THEN 1 + SpaceRun(s, i + 1) ELSE 0

Min(a, b) == IF a < b THEN a ELSE b

\* (\d{1,2}) followed by the separator sep: the number of digits taken, 0 if none
DigitsThen(s, i, sep) ==
    IF DigitRun(s, i) >= 2 /\ CharAt(s, i + 2) = sep THEN 2
    ELSE IF DigitRun(s, i) >= 1 /\ CharAt(s, i + 1) = sep THEN 1
    ELSE 0

NoMatch == [ok |-> FALSE, g |-> <<>>]

Groups(a, b, c) == [ok |-> TRUE, g |-> <<a, b, c>>]

\* (\d{1,2})\.(\d{1,2})\.(\d{2,4}) matched at position i
DotNumericAt(s, i) ==
    LET l1 == DigitsThen(s, i, ".")
        j  == i + l1 + 1
        l2 == DigitsThen(s, j, ".")
        k  == j + l2 + 1
        l3 == Min(DigitRun(s, k), 4)
    IN  IF l1 > 0 /\ l2 > 0 /\ l3 >= 2
        THEN Groups(SubSeq(s, i, i + l1 - 1), SubSeq(s, j, j + l2 - 1), SubSeq(s, k, k + l3 - 1))
        ELSE NoMatch

\* (\d{1,2})/(\d{1,2})(?:/(\d{2,4}))? matched at position i; an unmatched
\* optional group is the empty sequence
SlashNumericAt(s, i) ==
    LET l1 == DigitsThen(s, i, "/")
        j  == i + l1 + 1
        l2 == Min(DigitRun(s, j), 2)
        k  == j + l2 + 1
        l3 == IF CharAt(s, j + l2) = "/" THEN Min(DigitRun(s, k), 4) ELSE 0
    IN  IF l1 > 0 /\ l2 > 0
        THEN Groups(SubSeq(s, i, i + l1 - 1), SubSeq(s, j, j + l2 - 1),
                    IF l3 >= 2 THEN SubSeq(s, k, k + l3 - 1) ELSE <<>>)
        ELSE NoMatch

\* (\d{1,2})\.\s*(\w+)\s+(\d{4}) matched at position i
DayMonthYearAt(s, i) ==
    LET l1 == DigitsThen(s, i, ".")
        j  == i + l1 + 1 + SpaceRun(s, i + l1 + 1)
        w  == WordRun(s, j)
        sp == SpaceRun(s, j + w)
        k  == j + w + sp
    IN  IF l1 > 0 /\ w > 0 /\ sp > 0 /\ DigitRun(s, k) >= 4
        THEN Groups(SubSeq(s, i, i + l1 - 1), SubSeq(s, j, j + w - 1), SubSeq(s, k, k + 3))
        ELSE NoMatch

\* \s*-\s*\d{1,2}\.\s*\w+\s+(\d{4}) at position i: the year, or <<>>
RangeYearAt(s, i) ==
    LET a  == i + SpaceRun(s, i)
        b  == a + 1 + SpaceRun(s, a + 1)
        l  == DigitsThen(s, b, ".")
        c  == b + l + 1 + SpaceRun(s, b + l + 1)
        w  == WordRun(s, c)
        sp == SpaceRun(s, c + w)
        k  == c + w + sp
    IN  IF CharAt(s, a) = "-" /\ l > 0 /\ w > 0 /\ sp > 0 /\ DigitRun(s, k) >= 4
        THEN SubSeq(s, k, k + 3)
        ELSE <<>>

\* (\d{1,2})\.\s*(\w+)(?:\s*-\s*\d{1,2}\.\s*\w+\s+(\d{4}))? matched at position i
DayMonthAt(s, i) ==
    LET l1 == DigitsThen(s, i, ".")
        j  == i + l1 + 1 + SpaceRun(s, i + l1 + 1)
        w  == WordRun(s, j)
    IN  IF l1 > 0 /\ w > 0
        THEN Groups(SubSeq(s, i, i + l1 - 1), SubSeq(s, j, j + w - 1), RangeYearAt(s, j + w))
        ELSE NoMatch

PatternAt(p, s, i) ==
    CASE p = 1 -> DotNumericAt(s, i)
      [] p = 2 -> SlashNumericAt(s, i)
      [] p = 3 -> DayMonthYearAt(s, i)
      [] p = 4 -> DayMonthAt(s, i)

\* re.search: the match at the leftmost position where the pattern matches
RECURSIVE SearchFrom(_, _, _)
SearchFrom(p, s, i) ==
    IF i > Len(s) THEN NoMatch
    ELSE IF PatternAt(p, s, i).ok THEN PatternAt(p, s, i)
    ELSE SearchFrom(p, s, i + 1)

Search(p, s) == SearchFrom(p, s, 1)

\* the months dictionary; months.get(word, 0)
months(w) ==
    CASE w = <<"j", "ä", "n", "n", "e", "r">> -> 1
       [] w = <<"j", "a", "n", "u", "a", "r">> -> 1
       [] w = <<"j", "a", "n">> -> 1
       [] w = <<"f", "e", "b", "r", "u", "a", "r">> -> 2
       [] w = <<"f", "e", "b">> -> 2
       [] w = <<"m", "ä", "r", "z">> -> 3
       [] w = <<"m", "ä", "r">> -> 3
       [] w = <<"m", "a", "r">> -> 3
       [] w = <<"a", "p", "r", "i", "l">> -> 4
       [] w = <<"a", "p", "r">> -> 4
       [] w = <<"m", "a", "i">> -> 5
       [] w = <<"m", "a", "y">> -> 5
       [] w = <<"j", "u", "n", "i">> -> 6
       [] w = <<"j", "u", "n">> -> 6
       [] w = <<"j", "u", "l", "i">> -> 7
       [] w = <<"j", "u", "l">> -> 7
       [] w = <<"a", "u", "g", "u", "s", "t">> -> 8
       [] w = <<"a", "u", "g">> -> 8
       [] w = <<"s", "e", "p", "t", "e", "m", "b", "e", "r">> -> 9
       [] w = <<"s", "e", "p">> -> 9
       [] w = <<"s", "e", "p", "t">> -> 9
       [] w = <<"o", "k", "t", "o", "b", "e", "r">> -> 10
       [] w = <<"o", "k", "t">> -> 10
       [] w = <<"o", "c", "t">> -> 10
       [] w = <<"n", "o", "v", "e", "m", "b", "e", "r">> -> 11
       [] w = <<"n", "o", "v">> -> 11
       [] w = <<"d", "e", "z", "e", "m", "b", "e", "r">> -> 12
       [] w = <<"d", "e", "z">> -> 12
       [] w = <<"d", "e", "c">> -> 12
       [] OTHER -> 0

NoYear == -1

\* the (year, month, day) lambda of each pattern; NoYear stands for None
ParseGroups(p, g) ==
    CASE p = 1 -> <<IF Len(g[3]) = 4 THEN IntOf(g[3]) ELSE 2000 + IntOf(g[3]), IntOf(g[2]), IntOf(g[1])>>
      [] p = 2 -> <<IF g[3] # <<>> THEN IntOf(g[3]) ELSE NoYear, IntOf(g[2]), IntOf(g[1])>>
      [] p = 3 -> <<IntOf(g[3]), months(g[2]), IntOf(g[1])>>
      [] p = 4 -> <<IF g[3] # <<>> THEN IntOf(g[3]) ELSE NoYear, months(g[2]), IntOf(g[1])>>

\* "Determine year if not provided": today is <<year, month, day>> of datetime.now()
InferYear(month, today) == IF month < today[2] THEN today[1] + 1 ELSE today[1]

MinYear == 2020

IsoDate(year, month, day) ==
    ZeroPad(year, 4) \o <<"-">> \o ZeroPad(month, 2) \o <<"-">> \o ZeroPad(day, 2)

NumPatterns == 4

\* the loop over patterns, from pattern p on; <<>> stands for None
RECURSIVE ParseFrom(_, _, _)

\* "Validate": the date is returned, or the loop goes on with the next pattern
ValidatedDate(year, month, day, p, s, today) ==
    IF 1 <= month /\ month <= 12 /\ 1 <= day /\ day <= 31 /\ year >= MinYear
    THEN IsoDate(year, month, day)
    ELSE ParseFrom(p + 1, s, today)

\* year, month, day = handler(match), with the year inferred when it is None
HandledMatch(ymd, p, s, today) ==
    ValidatedDate(IF ymd[1] = NoYear THEN InferYear(ymd[2], today) ELSE ymd[1], ymd[2], ymd[3],
                  p, s, today)

\* match = re.search(pattern, date_text); if match: ...
SearchedPattern(m, p, s, today) ==
    IF ~m.ok THEN ParseFrom(p + 1, s, today)
    ELSE HandledMatch(ParseGroups(p, m.g), p, s, today)

ParseFrom(p, s, today) ==
    IF p > NumPatterns THEN <<>>
    ELSE SearchedPattern(Search(p, s), p, s, today)

parse_german_date(text, today) ==
    IF text = <<>> THEN <<>>
    ELSE ParseFrom(1, Lower(Strip(text)), today)

\* German month names as a listing prints them
MonthNames ==
    <<<<"J", "a", "n", "u", "a", "r">>,
      <<"F", "e", "b", "r", "u", "a", "r">>,
      <<"M", "ä", "r", "z">>,
      <<"A", "p", "r", "i", "l">>,
      <<"M", "a", "i">>,
      <<"J", "u", "n", "i">>,
      <<"J", "u", "l", "i">>,
      <<"A", "u", "g", "u", "s", "t">>,
      <<"S", "e", "p", "t", "e", "m", "b", "e", "r">>,
      <<"O", "k", "t", "o", "b", "e", "r">>,
      <<"N", "o", "v", "e", "m", "b", "e", "r">>,
      <<"D", "e", "z", "e", "m", "b", "e", "r">>>>

\* ---- harness: a listing prints a date without a year
Weekday == <<"M", "i", "t", "t", "w", "o", "c", "h">>

Decimal(n) == ZeroPad(n, 1)

\* the text of day d and month m in each year-less form
DateText(shape, d, m) ==
    CASE shape = "day_month" -> Decimal(d) \o <<".", " ">> \o MonthNames[m]
      [] shape = "weekday"   -> Weekday \o <<" ">> \o Decimal(d) \o <<".", " ">> \o MonthNames[m]
      [] shape = "slash"     -> Decimal(d) \o <<"/">> \o Decimal(m)

YearlessShapes == {"day_month", "weekday", "slash"}

NowYear == 2025

\* days of the month on which the scraper runs
NowDays == {1, 20}

DateIdle ==
    /\ now = <<>>
    /\ date_in = <<>>
    /\ date_text = <<>>
    /\ start_date = <<>>
    /\ date_pc = "idle"

DateStart ==
    /\ now \in {<<NowYear, m, d>> : m \in 1..12, d \in NowDays}
    /\ date_in \in [shape : YearlessShapes, day : 1..31, month : 1..12]
    /\ date_text = DateText(date_in.shape, date_in.day, date_in.month)
    /\ start_date = <<>>
    /\ date_pc = "text"

ParseDate ==
    /\ date_pc = "text"
    /\ start_date' = parse_german_date(date_text, now)
    /\ date_pc' = "parsed"
    /\ UNCHANGED <<now, date_in, date_text>>

DateNext == ParseDate

\* the year, month and day an ISO date string YYYY-MM-DD writes
IsoFields(d) == <<IntOf(SubSeq(d, 1, 4)), IntOf(SubSeq(d, 6, 7)), IntOf(SubSeq(d, 9, 10))>>

DateLess(a, b) ==
    \/ a[1] < b[1]
    \/ a[1] = b[1] /\ a[2] < b[2]
    \/ a[1] = b[1] /\ a[2] = b[2] /\ a[3] < b[3]

\* C2: a date printed without a year gets the next year when its month is
\* before the current month, or is the current month with a day before today,
\* and the current year otherwise; the inferred date is never before today.
C2_YearInference ==
    date_pc = "parsed" =>
        LET nextYear == \/ date_in.month < now[2]
                        \/ date_in.month = now[2] /\ date_in.day < now[3]
            year     == IF nextYear THEN now[1] + 1 ELSE now[1]
        IN  /\ start_date = IsoDate(year, date_in.month, date_in.day)
            /\ ~DateLess(IsoFields(start_date), now)

(***************************************************************************)
(* The downstream store (Supabase tables events and venues), the scraper   *)
(* classes and what their sites list.                                      *)
(***************************************************************************)
Flex == <<"F", "l", "e", "x">>

GrelleForelle == <<"G", "r", "e", "l", "l", "e", " ", "F", "o", "r", "e", "l", "l", "e">>

Wien == <<"W", "i", "e", "n">>

CameraClub == <<"C", "a", "m", "e", "r", "a", " ", "C", "l", "u", "b">>

TheLoft == <<"T", "h", "e", " ", "L", "o", "f", "t">>

\* venue_name of the configuration 'b72', a venue without a dedicated scraper
B72 == <<"B", "7", "2">>

\* variant "base": save_to_database and run inherited from BaseVenueScraper;
\* variant "gf": GrelleForelleScraper with its own __init__, save_to_database and run.
\* price: what the class's parser does with the key 'price' of an event:
\* "none" leaves it at the None it starts with, "missing" never creates the
\* key, "listed" assigns the price the page shows
FlexScraper == [VENUE_NAME |-> Flex, CITY |-> Wien, variant |-> "base", price |-> "none"]

CameraClubScraper ==
    [VENUE_NAME |-> CameraClub, CITY |-> Wien, variant |-> "base", price |-> "missing"]

GrelleForelleScraper ==
    [VENUE_NAME |-> GrelleForelle, CITY |-> Wien, variant |-> "gf", price |-> "listed"]

\* TheLoftScraper._parse_event_link starts with 'price': None and assigns the
\* text of span.preis when the card has one (ChelseaScraper likewise)
TheLoftScraper == [VENUE_NAME |-> TheLoft, CITY |-> Wien, variant |-> "base", price |-> "listed"]

\* GenericVenueScraper(config) for a venue import_scraper has no class for:
\* the name comes from the configuration, and the price stays None, since no
\* configuration names a price selector
GenericVenueScraper == [VENUE_NAME |-> B72, CITY |-> Wien, variant |-> "base", price |-> "none"]

\* the classes run_all_scrapers.main constructs, one for each way a class
\* treats the key 'price' and saves, and the fallback class
ScraperClasses ==
    {FlexScraper, CameraClubScraper, GrelleForelleScraper, TheLoftScraper, GenericVenueScraper}

\* the key 'time' is missing from the event dictionary
TimeAbsent == "absent"

\* the key 'price' is missing from the event dictionary
PriceAbsent == "absent"

\* day numbers of the run: the run happens on Today
PastDay == 1

Today == 2

\* is_future_event(e.get('date')): an event without a date is kept; so is one
\* whose date strptime rejects, which the day numbers from Today on stand for
is_future_event(date) == date = NoDate \/ date >= Today

\* [e for e in events if self.is_future_event(e.get('date'))]
FutureEvents(events) == SelectSeq(events, LAMBDA e : is_future_event(e.date))

Truthy(v) == v # NULL /\ v # ""

\* _prepare_event_for_db raises inside the try of save_to_database: the base
\* class evaluates event.get('price', '').lower(), an AttributeError when the
\* key 'price' is there with the value None; GrelleForelleScraper reads
\* event['time'] of a dated event, a KeyError when the key is missing
PrepareRaises(cls, event) ==
    IF cls.variant = "gf" THEN event.date # NoDate /\ event.time = TimeAbsent
    ELSE event.price = NULL

\* what stands for the value of an expression that raised
KeyError == <<"KeyError">>

\* start_date_time of _prepare_event_for_db: <<date, time text>>, <<>> for None.
\* The base class formats event.get('time', '23:00'), so a None time prints as
\* "None"; GrelleForelleScraper tests event['time'] for truthiness.
NoStart == <<>>

StartDateTime(variant, event) ==
    IF event.date = NoDate THEN NoStart
    ELSE IF variant = "gf"
         THEN IF event.time = TimeAbsent THEN KeyError
              ELSE <<event.date, IF event.time \in {NULL, ""} THEN "23:00" ELSE event.time>>
         ELSE <<event.date, IF event.time = TimeAbsent THEN "23:00"
                            ELSE IF event.time = NULL THEN "None" ELSE event.time>>

\* _prepare_event_for_db: the columns the claims depend on.  The base class
\* stores event.get('detail_url') or event.get('website') (no event here has
\* a website), GrelleForelleScraper event.get('detail_url') as it is.
PrepareEventForDb(cls, event) ==
    [title             |-> event.title,
     start_date_time   |-> StartDateTime(cls.variant, event),
     source_url        |-> IF cls.variant = "gf" \/ Truthy(event.detail_url)
                           THEN event.detail_url ELSE NULL,
     custom_venue_name |-> cls.VENUE_NAME,
     city              |-> cls.CITY]

\* the first index of a set of row indexes, 0 if empty: result.data[0]
FirstOf(S) == IF S = {} THEN 0 ELSE CHOOSE i \in S : \A k \in S : i <= k

\* select('id').eq('source_url', url)
SelectBySourceUrl(st, url) == FirstOf({i \in 1..Len(st) : st[i].source_url = url})

\* select('id').eq('title', title).eq('start_date_time', start)
SelectByTitleStart(st, title, start) ==
    FirstOf({i \in 1..Len(st) : st[i].title = title /\ st[i].start_date_time = start})

\* mutant: the base class also falls back to (title, start_date_time)
ExistingRowBoth(variant, st, db) ==
    LET byUrl == IF Truthy(db.source_url) THEN SelectBySourceUrl(st, db.source_url) ELSE 0
    IN  IF byUrl # 0 THEN byUrl
        ELSE IF Truthy(db.title) /\ db.start_date_time # NoStart
             THEN SelectByTitleStart(st, db.title, db.start_date_time)
             ELSE 0

\* "Check for existing event" of save_to_database: the row to update, 0 if none
ExistingRow(variant, st, db) ==
    LET byUrl == IF Truthy(db.source_url) THEN SelectBySourceUrl(st, db.source_url) ELSE 0
    IN  IF byUrl # 0 THEN byUrl
        ELSE IF variant = "gf" /\ Truthy(db.title) /\ db.start_date_time # NoStart
             THEN SelectByTitleStart(st, db.title, db.start_date_time)
             ELSE 0

\* table('events').update(db_event).eq('id', existing['id'])
UpdateRow(st, i, db) ==
    [st EXCEPT ![i] = [id                |-> @.id,
                       venue_id          |-> @.venue_id,
                       title             |-> db.title,
                       start_date_time   |-> db.start_date_time,
                       source_url        |-> db.source_url,
                       custom_venue_name |-> db.custom_venue_name,
                       city              |-> db.city]]

\* table('events').insert(db_event): a new id, venue_id null
InsertRow(st, db) ==
    Append(st, [id                |-> Len(st) + 1,
                venue_id          |-> NULL,
                title             |-> db.title,
                start_date_time   |-> db.start_date_time,
                source_url        |-> db.source_url,
                custom_venue_name |-> db.custom_venue_name,
                city              |-> db.city])

NoStats == [inserted |-> 0, updated |-> 0, errors |-> 0]

\* the log lines of save_to_database slice the title, event['title'][:50]
\* after the write and event.get('title', 'Unknown')[:50] in the except
\* branch: a TypeError when the title is None
LogRaises(event) == event.title = NULL

\* the except branch of the loop: one more error, and its log line either
\* passes (rest is the loop from the next event on) or raises out of
\* save_to_database
Excepted(event, st, stats, rest) ==
    IF LogRaises(event)
    THEN [store |-> st, stats |-> [stats EXCEPT !.errors = @ + 1], raised |-> TRUE]
    ELSE rest

\* "if existing: update ... stats['updated'] += 1 else: insert ...
\* stats['inserted'] += 1": the store and the stats after the write
WriteRow(st, stats, existing, db_event) ==
    IF existing # 0
    THEN [store |-> UpdateRow(st, existing, db_event), stats |-> [stats EXCEPT !.updated = @ + 1]]
    ELSE [store |-> InsertRow(st, db_event), stats |-> [stats EXCEPT !.inserted = @ + 1]]

\* the body of the try for one event that could be prepared
Upserted(cls, st, stats, db_event) ==
    WriteRow(st, stats, ExistingRow(cls.variant, st, db_event), db_event)

RECURSIVE AfterWrite(_, _, _, _, _)

\* mutant: the first event whose save raises ends the loop
RECURSIVE SaveLoopAbort(_, _, _, _, _, _)
SaveLoopAbort(cls, st, events, i, fails, stats) ==
    IF i > Len(events) THEN [store |-> st, stats |-> stats, raised |-> FALSE]
    ELSE IF i \in fails \/ PrepareRaises(cls, events[i])
         THEN [store |-> st, stats |-> [stats EXCEPT !.errors = @ + 1], raised |-> LogRaises(events[i])]
         ELSE LET w == Upserted(cls, st, stats, PrepareEventForDb(cls, events[i]))
              IN  Excepted(events[i], w.store, w.stats,
                           SaveLoopAbort(cls, w.store, events, i + 1, fails, w.stats))

\* save_to_database from event i on: fails is the set of positions whose store
\* call raises.  The result is the store, the stats dictionary and whether an
\* exception left the method (then the stats are not returned).  A row is
\* written and counted before the log line that follows it runs.
RECURSIVE SaveLoop(_, _, _, _, _, _)
SaveLoop(cls, st, events, i, fails, stats) ==
    IF i > Len(events) THEN [store |-> st, stats |-> stats, raised |-> FALSE]
    ELSE IF i \in fails \/ PrepareRaises(cls, events[i])
         THEN Excepted(events[i], st, stats,
                       SaveLoop(cls, st, events, i + 1, fails, [stats EXCEPT !.errors = @ + 1]))
         ELSE AfterWrite(cls, events, i, fails,
                         Upserted(cls, st, stats, PrepareEventForDb(cls, events[i])))

\* after the write of event i: its log line, then the rest of the loop
AfterWrite(cls, events, i, fails, w) ==
    Excepted(events[i], w.store, w.stats, SaveLoop(cls, w.store, events, i + 1, fails, w.stats))

\* save_to_database(events) with a store client (supabase) or without
save_to_database(cls, supabase, st, events, fails) ==
    IF ~supabase THEN [store |-> st, stats |-> NoStats, raised |-> FALSE]
    ELSE SaveLoop(cls, st, events, 1, fails, NoStats)

(***************************************************************************)
(* link_events_to_venue                                                    *)
(***************************************************************************)
\* the key of get_venues and of the loop in link_events_to_venues
LinkKey(nm, city) == <<normalize_venue_name(nm), Lower(city)>>

\* mutant: the city is not part of the key
LookupVenueAnyCity(vs, key) ==
    IF \E i \in 1..Len(vs) : normalize_venue_name(vs[i].name) = key[1]
    THEN CHOOSE i \in 1..Len(vs) : normalize_venue_name(vs[i].name) = key[1]
    ELSE 0

\* venue_lookup.get(key): the last venue of the table with that key, 0 if none
LookupVenue(vs, key) ==
    IF \E i \in 1..Len(vs) : LinkKey(vs[i].name, vs[i].city) = key
    THEN CHOOSE i \in 1..Len(vs) :
            /\ LinkKey(vs[i].name, vs[i].city) = key
            /\ \A k \in (i + 1)..Len(vs) : LinkKey(vs[k].name, vs[k].city) # key
    ELSE 0

NoLinkStats == [linked |-> 0, errors |-> 0, not_found |-> 0]

\* mutant: every event is scanned, linked or not
Unlinked_All(row) == TRUE

\* get_unlinked_events: venue_id is null (custom_venue_name is never null here)
Unlinked(row) == row.venue_id = NULL

\* the loop of link_events_to_venues from row i on; failIds are the ids of the
\* events whose update raises
RECURSIVE LinkLoop(_, _, _, _, _, _)
LinkLoop(st, vs, i, dry_run, failIds, stats) ==
    IF i > Len(st) THEN [store |-> st, stats |-> stats]
    ELSE IF ~Unlinked(st[i]) \/ st[i].custom_venue_name = <<>>
         THEN LinkLoop(st, vs, i + 1, dry_run, failIds, stats)
         ELSE LET venue == LookupVenue(vs, LinkKey(st[i].custom_venue_name, st[i].city))
              IN  IF venue = 0
                  THEN LinkLoop(st, vs, i + 1, dry_run, failIds, [stats EXCEPT !.not_found = @ + 1])
                  ELSE IF dry_run
                       THEN LinkLoop(st, vs, i + 1, dry_run, failIds, [stats EXCEPT !.linked = @ + 1])
                       ELSE IF st[i].id \in failIds
                            THEN LinkLoop(st, vs, i + 1, dry_run, failIds, [stats EXCEPT !.errors = @ + 1])
                            ELSE LinkLoop([st EXCEPT ![i].venue_id = vs[venue].id], vs, i + 1,
                                          dry_run, failIds, [stats EXCEPT !.linked = @ + 1])

\* link_events_to_venues(supabase, dry_run): venuesRead / eventsRead tell whether
\* the two select calls succeed (a failed select yields an empty result)
link_events_to_venues(st, vs, dry_run, venuesRead, eventsRead, failIds) ==
    IF ~venuesRead \/ vs = <<>> THEN [store |-> st, stats |-> NoLinkStats]
    ELSE IF ~eventsRead \/ ~\E i \in 1..Len(st) : Unlinked(st[i])
         THEN [store |-> st, stats |-> NoLinkStats]
         ELSE LinkLoop(st, vs, 1, dry_run, failIds, NoLinkStats)

(***************************************************************************)
(* BaseVenueScraper.save_events / run, GrelleForelleScraper.run and        *)
(* run_all_scrapers.main                                                   *)
(***************************************************************************)
\* events _prepare_event_for_pipeline accepts: a title and a date
RawEvents(events) == SelectSeq(events, LAMBDA e : Truthy(e.title) /\ e.date # NoDate)

\* save_via_unified_pipeline: one POST {events, options} unless no event is
\* valid; resp is the answer of the endpoint
save_via_unified_pipeline(events, self_dry_run, resp) ==
    LET raw_events == RawEvents(events)
    IN  IF raw_events = <<>> THEN [stats |-> NoStats, posts |-> <<>>]
        ELSE [stats |-> IF resp.ok
                        THEN [inserted |-> resp.inserted, updated |-> resp.updated, errors |-> resp.failed]
                        ELSE [inserted |-> 0, updated |-> 0, errors |-> Len(raw_events)],
              posts |-> <<[dryRun |-> self_dry_run, events |-> Len(raw_events)]>>]

\* save_events: the unified pipeline when configured, else the store client,
\* else nothing
save_events(cls, pipeline, supabase, self_dry_run, st, events, fails, resp) ==
    IF pipeline
    THEN LET r == save_via_unified_pipeline(events, self_dry_run, resp)
         IN  [store |-> st, stats |-> r.stats, posts |-> r.posts, raised |-> FALSE]
    ELSE IF supabase
         THEN LET r == save_to_database(cls, supabase, st, events, fails)
              IN  [store |-> r.store, stats |-> r.stats, posts |-> <<>>, raised |-> r.raised]
         ELSE [store |-> st,
               stats |-> [inserted |-> 0, updated |-> 0, errors |-> Len(events)],
               posts |-> <<>>,
               raised |-> FALSE]

\* mutant: self.dry_run stays what the caller passed
SelfDryRunAsPassed(dry_run, creds) == dry_run

\* self.dry_run after __init__ / _init_supabase
SelfDryRun(dry_run, creds) == dry_run \/ creds # "ok"

\* self.supabase is set after __init__
HasClient(dry_run, creds) == ~dry_run /\ creds = "ok"

\* what run() returns and what main() makes of it: the result record, the
\* store after the run and the process exit code.  run() has no handler around
\* the save: an exception that left save_to_database leaves run() and main()
\* too (raised; no result is returned, stats are the counts reached, the
\* interpreter exits with status 1).
RunResult(saved, linked, events_count, direct, link_ran) ==
    [store        |-> linked.store,
     stats        |-> saved.stats,
     posts        |-> saved.posts,
     link         |-> linked.stats,
     events_count |-> events_count,
     success      |-> ~saved.raised /\ saved.stats.errors = 0,
     raised       |-> saved.raised,
     direct       |-> direct,
     link_ran     |-> link_ran,
     total_errors |-> saved.stats.errors,
     exit_code    |-> IF ~saved.raised /\ saved.stats.errors = 0 THEN 0 ELSE 1]

\* run(): scrape, keep future events, save unless dry-run, then link after a
\* direct save that inserted something.  GrelleForelleScraper.run always saves
\* with its own save_to_database.
RunScraper(cls, dry_run, pipeline, creds, st, vs, events, fails, resp, failIds) ==
    LET self_dry_run  == SelfDryRun(dry_run, creds)
        supabase      == HasClient(dry_run, creds)
        future_events == FutureEvents(events)
        doSave        == future_events # <<>> /\ ~self_dry_run
        saved         == IF ~doSave
                         THEN [store |-> st, stats |-> NoStats, posts |-> <<>>, raised |-> FALSE]
                         ELSE IF cls.variant = "gf"
                              THEN LET r == save_to_database(cls, supabase, st, future_events, fails)
                                   IN  [store |-> r.store, stats |-> r.stats, posts |-> <<>>,
                                        raised |-> r.raised]
                              ELSE save_events(cls, pipeline, supabase, self_dry_run, st,
                                               future_events, fails, resp)
        doLink        == /\ doSave
                         /\ cls.variant = "gf" \/ ~pipeline
                         /\ ~saved.raised
                         /\ saved.stats.inserted > 0
                         /\ supabase
        linked        == IF doLink
                         THEN link_events_to_venues(saved.store, vs, FALSE, TRUE, TRUE, failIds)
                         ELSE [store |-> saved.store, stats |-> NoLinkStats]
    IN  RunResult(saved, linked, Len(future_events),
                  doSave /\ (cls.variant = "gf" \/ ~pipeline) /\ supabase, doLink)

\* run_all_scrapers.main after the venue ran: the totals count a venue only
\* when its run reported success, and the link pass needs an insertion.  An
\* exception of run() is caught and recorded as {'success': False}.
RunAllSummary(result, args_dry_run, creds, vs, failIds) ==
    LET total_inserted == IF result.success THEN result.stats.inserted ELSE 0
        total_errors   == IF result.success THEN result.stats.errors ELSE 0
        doLink         == ~args_dry_run /\ total_inserted > 0 /\ creds = "ok"
        linked         == IF doLink
                          THEN link_events_to_venues(result.store, vs, FALSE, TRUE, TRUE, failIds)
                          ELSE [store |-> result.store, stats |-> NoLinkStats]
    IN  [result EXCEPT !.store = linked.store,
                       !.link = [linked   |-> result.link.linked + linked.stats.linked,
                                 errors   |-> result.link.errors + linked.stats.errors,
                                 not_found |-> linked.stats.not_found],
                       !.link_ran = result.link_ran \/ doLink,
                       !.raised = FALSE,
                       !.total_errors = total_errors,
                       !.exit_code = IF total_errors = 0 THEN 0 ELSE 1]

\* run_all_scrapers.main for one venue: the scraper is constructed with
\* dry_run=False, run, and the events are linked unless --dry-run was given
RunAll(cls, args_dry_run, pipeline, creds, st, vs, events, fails, resp, failIds) ==
    RunAllSummary(RunScraper(cls, FALSE, pipeline, creds, st, vs, events, fails, resp, failIds),
                  args_dry_run, creds, vs, failIds)

\* ---- the system: one venue site, its scraper, the store and the registry
MaxListing == 2

MaxRows == 3

\* an event of a page that shows neither a time nor a price
Event(title, date, url) ==
    [title |-> title, date |-> date, time |-> NULL, price |-> NULL, detail_url |-> url]

\* the event of a page that shows its price
Priced(title, date, url) == [Event(title, date, url) EXCEPT !.price = "10"]

\* events a site lists: with and without a detail URL, dated and undated,
\* two titles behind one URL, one of them with a price, and an event that is
\* already over
ListingEvents ==
    {Event("t1", Today, "u1"), Priced("t2", Today, "u1"), Event("t1", Today, NULL),
     Event("t1", NoDate, NULL), Event("t1", PastDay, "u2")}

\* the listed event as the class's parser returns it.  Every parser starts
\* its events with 'time': None.  FlexScraper._parse_event_item also starts
\* them with 'price': None and never assigns a price;
\* CameraClubScraper._parse_item builds them without the key 'price';
\* GrelleForelleScraper and TheLoftScraper assign the price the page shows.
ScrapedBy(cls, e) ==
    [e EXCEPT !.price = IF cls.price = "missing" THEN PriceAbsent
                        ELSE IF cls.price = "none" THEN NULL ELSE @]

RunListings(cls) == SeqsUpTo({ScrapedBy(cls, e) : e \in ListingEvents}, MaxListing)

Venue(id, nm, city) == [id |-> id, name |-> nm, city |-> city]

FlexLoud == <<" ", "F", "L", "E", "X", " ">>

CameraClubLoud == <<" ", "C", "A", "M", "E", "R", "A", " ", " ", "C", "l", "u", "b">>

FlexCafe == <<"F", "l", "e", "x", " ", "C", "a", "f", "e">>

GrelleForelleWide == <<"g", "r", "e", "l", "l", "e", " ", " ", "F", "o", "r", "e", "l", "l", "e">>

WienLoud == <<"W", "I", "E", "N">>

Graz == <<"G", "r", "a", "z">>

RunRegistries ==
    {<<>>,
     <<Venue("v1", CameraClubLoud, WienLoud), Venue("v2", GrelleForelleWide, Wien)>>}

\* answers of the ingestion endpoint
PipelineResponses == [ok : BOOLEAN, inserted : 0..1, updated : {0}, failed : 0..1]

NoResponse == [ok |-> FALSE, inserted |-> 0, updated |-> 0, failed |-> 0]

\* the inputs of one run that can make a difference: which saves raise, what
\* the endpoint answers, which link updates raise
SaveFaults == SUBSET (1..Len(FutureEvents(listing)))

Responses ==
    IF UNIFIED_PIPELINE_AVAILABLE /\ scraper.variant = "base" THEN PipelineResponses
    ELSE {NoResponse}

LinkFaults ==
    IF credentials = "ok" /\ venues # <<>>
    THEN {{}, 1..(Len(store) + Len(FutureEvents(listing)))}
    ELSE {{}}

NoOp ==
    [op |-> "none", dry_run |-> FALSE, events_count |-> 0, stats |-> NoStats,
     live_posts |-> 0, posted |-> 0, link |-> NoLinkStats, direct |-> FALSE,
     link_ran |-> FALSE, total_errors |-> 0, exit_code |-> 0, success |-> TRUE, raised |-> FALSE,
     direct_clean |-> FALSE, reads_ok |-> TRUE, link_clean |-> FALSE, after_clean |-> FALSE]

LastOf(op, dry_run, r, fails) ==
    [op           |-> op,
     dry_run      |-> dry_run,
     events_count |-> r.events_count,
     stats        |-> r.stats,
     live_posts   |-> Cardinality({i \in 1..Len(r.posts) : ~r.posts[i].dryRun}),
     posted       |-> IF r.posts = <<>> THEN 0 ELSE r.posts[1].events,
     link         |-> r.link,
     direct       |-> r.direct,
     link_ran     |-> r.link_ran,
     total_errors |-> r.total_errors,
     exit_code    |-> r.exit_code,
     success      |-> r.success,
     raised       |-> r.raised,
     direct_clean |-> r.direct /\ fails = {},
     reads_ok     |-> TRUE,
     link_clean   |-> FALSE,
     after_clean  |-> FALSE]

RunIdle ==
    /\ scraper = FlexScraper
    /\ listing = <<>>
    /\ UNIFIED_PIPELINE_AVAILABLE = FALSE
    /\ credentials = "idle"

StoreIdle ==
    /\ venues = <<>>
    /\ store = <<>>
    /\ last = NoOp

RunStart ==
    /\ scraper \in ScraperClasses
    /\ listing \in RunListings(scraper)
    /\ UNIFIED_PIPELINE_AVAILABLE \in BOOLEAN
    /\ credentials \in {"ok", "missing"}
    /\ venues \in RunRegistries
    /\ store = <<>>
    /\ last = NoOp

\* python website-scrapers/<venue>.py [--dry-run]
RunScraperCli ==
    \E dry_run \in BOOLEAN, fails \in SaveFaults, resp \in Responses, failIds \in LinkFaults :
        \E r \in {RunScraper(scraper, dry_run, UNIFIED_PIPELINE_AVAILABLE, credentials,
                             store, venues, listing, fails, resp, failIds)} :
            /\ Len(r.store) <= MaxRows
            /\ store' = r.store
            /\ last' = LastOf("cli", dry_run, r, fails)
            /\ UNCHANGED <<scraper, listing, UNIFIED_PIPELINE_AVAILABLE, credentials, venues>>

\* python website-scrapers/run_all_scrapers.py [--dry-run] --venues <venue>
RunAllScrapers ==
    \E dry_run \in BOOLEAN, fails \in SaveFaults, resp \in Responses, failIds \in LinkFaults :
        \E r \in {RunAll(scraper, dry_run, UNIFIED_PIPELINE_AVAILABLE, credentials,
                         store, venues, listing, fails, resp, failIds)} :
            /\ Len(r.store) <= MaxRows
            /\ store' = r.store
            /\ last' = LastOf("driver", dry_run, r, fails)
            /\ UNCHANGED <<scraper, listing, UNIFIED_PIPELINE_AVAILABLE, credentials, venues>>

RunNext == RunScraperCli \/ RunAllScrapers

\* C1: a run for which dry-run was requested leaves the store unchanged and
\* sends no ingestion request that is not itself a dry run.
C1_DryRunSuppressesWrites ==
    [][last'.dry_run => (store' = store /\ last'.live_posts = 0)]_vars

\* what the claimed match rule does to the store: source_url first, then
\* (title, start_date_time), update on a hit, insert otherwise
RECURSIVE UpsertBothLookups(_, _, _, _)
UpsertBothLookups(cls, st, events, i) ==
    IF i > Len(events) THEN st
    ELSE LET db_event == PrepareEventForDb(cls, events[i])
             existing == ExistingRowBoth(cls.variant, st, db_event)
         IN  UpsertBothLookups(cls, IF existing # 0 THEN UpdateRow(st, existing, db_event)
                                    ELSE InsertRow(st, db_event), events, i + 1)

DbColumns(st) == [i \in 1..Len(st) |-> [st[i] EXCEPT !.venue_id = NULL]]

\* C5: publishing the same batch a second time through the direct-store path
\* updates every event, inserts none and leaves the store as it was.
C5_UpsertIdempotent ==
    [][(last.direct_clean /\ last'.direct_clean) =>
          /\ last'.stats.inserted = 0
          /\ last'.stats.updated = last'.events_count
          /\ store' = store]_vars

\* C6: the direct upsert matches by source_url, then by (title,
\* start_date_time), updates on a hit and inserts only when neither matches.
C6_MatchByUrlThenTitleStart ==
    [][last'.direct_clean =>
          DbColumns(store') = DbColumns(UpsertBothLookups(scraper, store, FutureEvents(listing), 1))]_vars

(***************************************************************************)
(* python website-scrapers/link_events_to_venue.py [--dry-run] against a   *)
(* store that holds linked and unlinked events.                            *)
(***************************************************************************)
MaxLinkRows == 2

\* the venues table: empty, the venue under a differently typed name, a venue
\* whose name only contains the event's venue name, the same name in another
\* city, and two venues with one key
LinkRegistries ==
    {<<>>,
     <<Venue("v1", FlexLoud, WienLoud)>>,
     <<Venue("v1", FlexCafe, Wien)>>,
     <<Venue("v1", FlexLoud, WienLoud), Venue("v3", Flex, Graz)>>,
     <<Venue("v3", Flex, Wien), Venue("v1", FlexLoud, WienLoud)>>}

\* an event row as a scraper inserts it, possibly linked by an earlier run
EventRow(nm, city, venue_id) ==
    [title |-> "t1", start_date_time |-> NoStart, source_url |-> NULL,
     custom_venue_name |-> nm, city |-> city, venue_id |-> venue_id]

\* unlinked events with a matching, a partly matching and an empty venue
\* name, and events an earlier run linked
EventRows ==
    {EventRow(Flex, Wien, NULL), EventRow(Flex, Graz, NULL), EventRow(FlexCafe, Wien, NULL),
     EventRow(<<>>, Wien, NULL), EventRow(Flex, Wien, "v2"), EventRow(FlexCafe, Graz, "v2")}

WithIds(rows) ==
    [i \in 1..Len(rows) |-> [id |-> i, venue_id |-> rows[i].venue_id, title |-> rows[i].title,
                             start_date_time |-> rows[i].start_date_time,
                             source_url |-> rows[i].source_url,
                             custom_venue_name |-> rows[i].custom_venue_name,
                             city |-> rows[i].city]]

LinkStores == {WithIds(rows) : rows \in SeqsUpTo(EventRows, MaxLinkRows)}

LinkStart ==
    /\ venues \in LinkRegistries
    /\ store \in LinkStores
    /\ last = NoOp

\* main() of link_events_to_venue.py: without a store client (init_supabase
\* returns None) it returns 1 and makes no call; otherwise it calls
\* link_events_to_venues once and returns 1 when an update failed, else 0
LinkMain(supabase, st, vs, dry_run, reads, failIds) ==
    IF ~supabase THEN [store |-> st, stats |-> NoLinkStats, ran |-> FALSE, exit_code |-> 1]
    ELSE LET r == link_events_to_venues(st, vs, dry_run, reads[1], reads[2], failIds)
         IN  [store |-> r.store, stats |-> r.stats, ran |-> TRUE,
              exit_code |-> IF r.stats.errors = 0 THEN 0 ELSE 1]

\* python website-scrapers/link_events_to_venue.py [--dry-run]
LinkCli ==
    \E supabase \in BOOLEAN, dry_run \in BOOLEAN,
       reads \in {<<TRUE, TRUE>>, <<FALSE, TRUE>>, <<TRUE, FALSE>>},
       failIds \in {{}} \cup {{store[i].id} : i \in 1..Len(store)} :
        \E r \in {LinkMain(supabase, store, venues, dry_run, reads, failIds)} :
            /\ store' = r.store
            /\ last' = [NoOp EXCEPT !.op = "link",
                                    !.dry_run = dry_run,
                                    !.link = r.stats,
                                    !.link_ran = r.ran,
                                    !.exit_code = r.exit_code,
                                    !.success = r.exit_code = 0,
                                    !.reads_ok = r.ran /\ reads[1] /\ reads[2],
                                    !.link_clean = /\ r.ran /\ ~dry_run /\ reads[1] /\ reads[2]
                                                   /\ r.stats.errors = 0,
                                    !.after_clean = last.link_clean]
            /\ UNCHANGED venues

LinkNext == LinkCli

RowKey(row) == LinkKey(row.custom_venue_name, row.city)

VenueKey(v) == LinkKey(v.name, v.city)

\* the part of C8 about one run: link keeps every event, leaves an event
\* whose venue_id is set as it is, and counts at most the unlinked events
LinkScansUnlinked ==
    /\ Len(store') = Len(store)
    /\ \A i \in 1..Len(store) : store[i].venue_id # NULL => store'[i] = store[i]
    /\ last'.link.linked + last'.link.errors + last'.link.not_found
          <= Cardinality({i \in 1..Len(store) : store[i].venue_id = NULL})

\* C8 as claimed: link only touches events whose venue_id is null, and a link
\* run that follows any link run with the same registry changes no event.
C8_SecondRunChangesNothing ==
    [][last'.op = "link" =>
          /\ LinkScansUnlinked
          /\ last.op = "link" => store' = store]_vars

\* C8 amended: link only touches events whose venue_id is null, and a link
\* run changes no event when the run before it had a store client, was not
\* a dry run, read the venues and the unlinked events, and had no update
\* fail.
C8_LinkIdempotent ==
    [][last'.op = "link" =>
          /\ LinkScansUnlinked
          /\ last.link_clean => store' = store]_vars

\* a second run after a run that linked an event, with an event in the store
\* that an earlier run linked to a venue other than the one its key names now
C8_Witness ==
    /\ last.op = "link"
    /\ last.after_clean
    /\ \E i \in 1..Len(store) : \E k \in 1..Len(venues) :
          /\ store[i].venue_id = "v2"
          /\ RowKey(store[i]) = VenueKey(venues[k])
          /\ venues[k].id = "v1"
    /\ \E i \in 1..Len(store) : store[i].venue_id = "v1"

\* events without a venue_id (and with a venue name) whose key names no venue
Unmatched(st, vs) ==
    {i \in 1..Len(st) :
        /\ st[i].venue_id = NULL
        /\ \A k \in 1..Len(vs) : RowKey(st[i]) # VenueKey(vs[k])}

\* the link run sets venue_id only to a venue with the event's key
LinkedByExactKey(st, st2, vs) ==
    \A i \in 1..Len(st) :
        (st[i].venue_id = NULL /\ st2[i].venue_id # NULL) =>
            \E k \in 1..Len(vs) :
                /\ vs[k].id = st2[i].venue_id
                /\ RowKey(st[i]) = VenueKey(vs[k])

\* C9 as claimed: venue_id is set only on an exact key match, and every event
\* whose key matches no venue stays unlinked and is counted as not found.
C9_ExactMatchAndCounted ==
    [][(last'.op = "link" /\ last'.link_ran) =>
          /\ LinkedByExactKey(store, store', venues)
          /\ \A i \in Unmatched(store, venues) : store'[i].venue_id = NULL
          /\ last'.link.not_found = Cardinality(Unmatched(store, venues))]_vars

\* C9 amended: the count is taken only when the registry and the unlinked
\* events were read and the registry is not empty, and it leaves out events
\* with an empty venue name.
C9_ExactMatch ==
    [][(last'.op = "link" /\ last'.link_ran) =>
          /\ LinkedByExactKey(store, store', venues)
          /\ \A i \in Unmatched(store, venues) : store'[i].venue_id = NULL
          /\ last'.link.not_found =
                IF last'.reads_ok /\ venues # <<>>
                THEN Cardinality({i \in Unmatched(store, venues) : store[i].custom_venue_name # <<>>})
                ELSE 0]_vars

\* a run that linked one event by a differently typed venue name and left
\* another, whose name only contains that venue's name, unlinked
C9_Witness ==
    /\ last.op = "link"
    /\ last.link.linked = 1
    /\ last.link.not_found = 1
    /\ \E i \in 1..Len(store) : \E k \in 1..Len(venues) :
          /\ store[i].venue_id = venues[k].id
          /\ store[i].custom_venue_name = Flex
          /\ venues[k].name = FlexLoud
          /\ \E j \in 1..Len(store) :
                /\ store[j].venue_id = NULL
                /\ store[j].custom_venue_name = FlexCafe
                /\ store[j].city = store[i].city

(***************************************************************************)
(* Two runs of one venue's scraper publishing the same extraction at the   *)
(* same time.  Every call of the store client is one step.                 *)
(***************************************************************************)
NumRuns == 2

Runs == 1..NumRuns

RaceIdle == runs = <<>>

\* the events both runs hand to save_to_database
RaceEvents == FutureEvents(listing)

RaceDbEvent(p) == PrepareEventForDb(scraper, RaceEvents[runs[p].i])

\* the for loop of save_to_database moves to the next event
NextEvent(p) ==
    [pc |-> IF runs[p].i + 1 > Len(RaceEvents) THEN "done" ELSE "check",
     i |-> runs[p].i + 1, existing |-> 0]

RaceStart ==
    /\ scraper \in ScraperClasses
    /\ listing \in RunListings(scraper)
    /\ UNIFIED_PIPELINE_AVAILABLE = FALSE
    /\ credentials = "ok"
    /\ venues = <<>>
    /\ store = <<>>
    /\ last = NoOp
    /\ runs = [p \in Runs |-> [pc |-> IF RaceEvents = <<>> THEN "done" ELSE "check",
                               i |-> 1, existing |-> 0]]

\* _prepare_event_for_db raises for the event: "except Exception" counts an
\* error and goes on, no store call is made
PrepareFails(p) ==
    /\ runs[p].pc = "check"
    /\ PrepareRaises(scraper, RaceEvents[runs[p].i])
    /\ runs' = [runs EXCEPT ![p] = NextEvent(p)]
    /\ UNCHANGED <<runVars, storeVars>>

\* "if db_event.get('source_url'): existing = select('id').eq('source_url', ...)"
CheckSourceUrl(p) ==
    /\ runs[p].pc = "check"
    /\ ~PrepareRaises(scraper, RaceEvents[runs[p].i])
    /\ LET db_event == RaceDbEvent(p)
           byUrl == IF Truthy(db_event.source_url)
                    THEN SelectBySourceUrl(store, db_event.source_url) ELSE 0
           more == /\ byUrl = 0
                   /\ scraper.variant = "gf"
                   /\ Truthy(db_event.title)
                   /\ db_event.start_date_time # NoStart
       IN  runs' = [runs EXCEPT ![p].existing = byUrl,
                                ![p].pc = IF more THEN "check_title" ELSE "write"]
    /\ UNCHANGED <<runVars, storeVars>>

\* GrelleForelleScraper: "if not existing and title and start_date_time: select"
CheckTitleStart(p) ==
    /\ runs[p].pc = "check_title"
    /\ LET db_event == RaceDbEvent(p)
       IN  runs' = [runs EXCEPT ![p].existing = SelectByTitleStart(store, db_event.title,
                                                                    db_event.start_date_time),
                                ![p].pc = "write"]
    /\ UNCHANGED <<runVars, storeVars>>

\* "if existing: update(...).eq('id', ...) else: insert(...)"
Write(p) ==
    /\ runs[p].pc = "write"
    /\ store' = IF runs[p].existing # 0
                THEN UpdateRow(store, runs[p].existing, RaceDbEvent(p))
                ELSE InsertRow(store, RaceDbEvent(p))
    /\ runs' = [runs EXCEPT ![p] = NextEvent(p)]
    /\ UNCHANGED <<runVars, venues, last>>

\* a store call raises: "except Exception" counts an error and goes on
StoreCallFails(p) ==
    /\ runs[p].pc \in {"check", "check_title", "write"}
    /\ ~PrepareRaises(scraper, RaceEvents[runs[p].i])
    /\ runs' = [runs EXCEPT ![p] = NextEvent(p)]
    /\ UNCHANGED <<runVars, storeVars>>

RaceNext ==
    \E p \in Runs :
        \/ PrepareFails(p)
        \/ CheckSourceUrl(p)
        \/ CheckTitleStart(p)
        \/ Write(p)
        \/ StoreCallFails(p)

\* C7: whatever the interleaving of two runs, when both have finished the
\* store holds at most one record per source URL.
C7_SerializedPerKey ==
    (runs # <<>> /\ \A p \in Runs : runs[p].pc = "done") =>
        \A i, j \in 1..Len(store) :
            (i # j /\ Truthy(store[i].source_url)) => store[i].source_url # store[j].source_url

(***************************************************************************)
(* Fetching: python run_all_scrapers.py --venues flex flucc on a machine   *)
(* without Supabase credentials.  The web answers every request of a URL   *)
(* with the next entry of that URL's response pattern.                     *)
(***************************************************************************)
\* attempts and base delay a retrying fetch would be configured with
MaxAttempts == 3

BaseDelay == 1

MaxSiteEvents == 2

FlexEventsUrl == "flex.at/events/list/"

\* FluccWanneScraper.EVENTS_PAGES
FluccPages == <<"flucc.at/musik/", "flucc.at/kunst/", "flucc.at/community/">>

ListingUrls == {FlexEventsUrl} \cup {FluccPages[n] : n \in 1..NumPages}

\* what a URL answers to the first, second, ... request
AlwaysOk == [k \in 1..MaxAttempts |-> "ok"]

OkOnRetry == [k \in 1..MaxAttempts |-> IF k = 1 THEN "error" ELSE "ok"]

AlwaysError == [k \in 1..MaxAttempts |-> "error"]

ResponsePatterns == {AlwaysOk, OkOnRetry, AlwaysError}

\* the web: listing URLs answer in any pattern, detail pages all work or all fail
WebResponses ==
    {[u \in ListingUrls \cup Urls |-> IF u \in ListingUrls THEN l[u] ELSE d] :
        l \in [ListingUrls -> ResponsePatterns], d \in {AlwaysOk, AlwaysError}}

\* events the Flucc pages list: each has a title, a date and a detail URL
SiteEvents == {Event("t1", Today, "u1"), Event("t2", Today, "u2"), Event("t2", Today, "u1")}

Flucc ==
    <<"F", "l", "u", "c", "c", " ", "/", " ", "F", "l", "u", "c", "c", " ",
      "W", "a", "n", "n", "e">>

FluccWanneScraper == [VENUE_NAME |-> Flucc, CITY |-> Wien, variant |-> "base", price |-> "none"]

\* session.get + raise_for_status inside try/except: one request, a soup or None
fetch_page(url, resp) ==
    [soup |-> resp[url][1] = "ok",
     log  |-> <<[url |-> url, attempts |-> 1, waits |-> <<>>, ok |-> resp[url][1] = "ok"]>>]

\* _parse_event_link on every link of a page: each event with a detail URL and
\* a date has its detail page fetched (a failed fetch leaves the event as it is)
RECURSIVE EnrichLog(_, _)
EnrichLog(evs, resp) ==
    IF evs = <<>> THEN <<>>
    ELSE (IF HasUrl(Head(evs)) /\ Head(evs).date # NoDate
          THEN fetch_page(Head(evs).detail_url, resp).log ELSE <<>>)
         \o EnrichLog(Tail(evs), resp)

\* FluccWanneScraper._scrape_page: [] when the page cannot be fetched
ScrapePage(url, resp, page) ==
    LET f == fetch_page(url, resp)
    IN  IF ~f.soup THEN [events |-> <<>>, log |-> f.log]
        ELSE [events |-> SelectSeq(page, LAMBDA e : Truthy(e.title) /\ e.date # NoDate),
              log    |-> f.log \o EnrichLog(page, resp)]

\* mutant: the first page that cannot be fetched ends the loop
RECURSIVE ScrapePagesAbort(_, _, _)
ScrapePagesAbort(resp, pg, n) ==
    IF n > NumPages THEN [events |-> <<>>, log |-> <<>>]
    ELSE LET this == ScrapePage(FluccPages[n], resp, pg[n])
             rest == IF resp[FluccPages[n]][1] = "ok" THEN ScrapePagesAbort(resp, pg, n + 1)
                     ELSE [events |-> <<>>, log |-> <<>>]
         IN  [events |-> this.events \o rest.events, log |-> this.log \o rest.log]

\* "for page_url in self.EVENTS_PAGES: all_events.extend(self._scrape_page(page_url))"
RECURSIVE ScrapePages(_, _, _)
ScrapePages(resp, pg, n) ==
    IF n > NumPages THEN [events |-> <<>>, log |-> <<>>]
    ELSE LET this == ScrapePage(FluccPages[n], resp, pg[n])
             rest == ScrapePages(resp, pg, n + 1)
         IN  [events |-> this.events \o rest.events, log |-> this.log \o rest.log]

\* FluccWanneScraper.scrape_events
FluccScrapeEvents(resp, pg) ==
    LET all == ScrapePages(resp, pg, 1)
    IN  [events |-> DedupLoop(all.events, {}, <<>>), log |-> all.log]

\* FlexScraper.scrape_events: [] when the listing cannot be fetched
FlexScrapeEvents(resp, page) ==
    LET f == fetch_page(FlexEventsUrl, resp)
    IN  [events |-> IF f.soup THEN SelectSeq(page, LAMBDA e : Truthy(e.title)) ELSE <<>>,
         log    |-> f.log]

\* venues_to_scrape of main()
VenuesToScrape == <<"flex", "flucc">>

ScraperOf(venue_key) == IF venue_key = "flex" THEN FlexScraper ELSE FluccWanneScraper

ScrapeEventsOf(venue_key, resp, st) ==
    IF venue_key = "flex" THEN FlexScrapeEvents(resp, st.flex)
    ELSE FluccScrapeEvents(resp, st.flucc)

FetchIdle ==
    /\ responses = <<>>
    /\ site = <<>>
    /\ requests = <<>>
    /\ results = <<>>
    /\ fetch_pc = 0

FetchStart ==
    /\ responses \in WebResponses
    /\ \E evs \in SeqsUpTo(SiteEvents, MaxSiteEvents) : \E pg \in PagesOf(evs) :
          \E fx \in {<<>>, <<Event("t1", Today, NULL)>>} : site = [flucc |-> pg, flex |-> fx]
    /\ requests = <<>>
    /\ results = <<>>
    /\ fetch_pc = 1
    /\ scraper = FlexScraper
    /\ listing = <<>>
    /\ UNIFIED_PIPELINE_AVAILABLE = FALSE
    /\ credentials = "missing"
    /\ StoreIdle

\* one pass of "for venue_key in venues_to_scrape": construct the scraper and run it
RunVenue ==
    /\ fetch_pc \in 1..Len(VenuesToScrape)
    /\ \E venue_key \in {VenuesToScrape[fetch_pc]} :
       \E scraped \in {ScrapeEventsOf(venue_key, responses, site)} :
       \E result \in {RunAll(ScraperOf(venue_key), FALSE, UNIFIED_PIPELINE_AVAILABLE,
                             credentials, store, venues, scraped.events, {}, NoResponse, {})} :
           /\ scraper' = ScraperOf(venue_key)
           /\ listing' = scraped.events
           /\ requests' = requests \o scraped.log
           /\ results' = Append(results, [venue |-> venue_key, success |-> result.success,
                                          events |-> FutureEvents(scraped.events)])
           /\ store' = result.store
           /\ last' = LastOf("driver", FALSE, result, {})
    /\ fetch_pc' = fetch_pc + 1
    /\ UNCHANGED <<responses, site, UNIFIED_PIPELINE_AVAILABLE, credentials, venues>>

FetchNext == RunVenue

\* the attempt of a response pattern that first succeeds, 0 if none does
FirstOk(pattern) ==
    IF \E k \in 1..MaxAttempts : pattern[k] = "ok"
    THEN CHOOSE k \in 1..MaxAttempts : pattern[k] = "ok" /\ \A j \in 1..(k - 1) : pattern[j] # "ok"
    ELSE 0

AttemptsDue(pattern) == IF FirstOk(pattern) = 0 THEN MaxAttempts ELSE FirstOk(pattern)

Backoff(n) == [k \in 1..n |-> BaseDelay * 2 ^ (k - 1)]

\* C11: every fetch of a URL makes attempts up to the first success, at most
\* MaxAttempts, waits BaseDelay * 2^(attempt-1) after each failed attempt that
\* is retried, and fails only when all MaxAttempts attempts failed.
C11_BoundedRetryBackoff ==
    \A i \in 1..Len(requests) :
        LET pattern == responses[requests[i].url]
        IN  /\ requests[i].attempts = AttemptsDue(pattern)
            /\ requests[i].waits = Backoff(requests[i].attempts - 1)
            /\ requests[i].ok = (FirstOk(pattern) # 0)

Fetched(url) == \E i \in 1..Len(requests) : requests[i].url = url

PageOk(url) == responses[url][1] = "ok"

EventsIn(evs) == {evs[i] : i \in 1..Len(evs)}

\* C13: a listing page or a whole source that cannot be fetched contributes no
\* event and raises nothing; every other page and every other source is still
\* fetched and processed, and the run goes through all venues.
C13_FetchFailuresIsolated ==
    /\ Len(results) = fetch_pc - 1
    /\ fetch_pc > Len(VenuesToScrape) =>
          /\ \A i \in 1..Len(VenuesToScrape) :
                results[i].venue = VenuesToScrape[i] /\ results[i].success
          /\ \A u \in ListingUrls : Fetched(u)
          /\ results[1].events = IF PageOk(FlexEventsUrl) THEN site.flex ELSE <<>>
          /\ \A e \in EventsIn(results[2].events) :
                \E n \in 1..NumPages : PageOk(FluccPages[n]) /\ e \in EventsIn(site.flucc[n])
          /\ \A n \in 1..NumPages : \A e \in EventsIn(site.flucc[n]) :
                PageOk(FluccPages[n]) =>
                    \E x \in EventsIn(results[2].events) : x.detail_url = e.detail_url

\* the first source and the first Flucc page could not be fetched although
\* they list events, and a later Flucc page delivered its events
C13_Witness ==
    /\ fetch_pc > Len(VenuesToScrape)
    /\ ~PageOk(FlexEventsUrl) /\ site.flex # <<>>
    /\ ~PageOk(FluccPages[1]) /\ site.flucc[1] # <<>>
    /\ results[1].events = <<>>
    /\ results[2].events # <<>>

(***************************************************************************)
(* Request timing of one scrape_events call.  A step is a sleep or a       *)
(* request; a request takes some time before its response arrives.         *)
(***************************************************************************)
\* IbizaSpotlightScraper.__init__(delay=2.0)
Delay == 2

MaxCards == 2

\* time between sending a request and having its response
Durations == {0, 1}

IbizaEventsUrl == "ibiza-spotlight.de/night/events"

Sleep == [kind |-> "sleep", url |-> NULL]

Request(url) == [kind |-> "request", url |-> url]

\* what _parse_event_card finds on a card: a title or none, a detail link or none
Card(title, url) == [title |-> title, detail_url |-> url]

Cards == {Card("t1", "i1"), Card("t2", "i2"), Card("t1", NULL), Card(NULL, NULL)}

\* the for loop of IbizaSpotlightScraper.scrape_events from card idx on:
\* _enrich_from_detail_page sleeps and fetches, then the loop sleeps unless
\* the card is the last one
RECURSIVE IbizaCardSteps(_, _)
IbizaCardSteps(event_cards, idx) ==
    IF idx > Len(event_cards) THEN <<>>
    ELSE LET card == event_cards[idx]
         IN  (IF Truthy(card.title) /\ Truthy(card.detail_url)
              THEN <<Sleep, Request(card.detail_url)>> ELSE <<>>)
             \o (IF idx < Len(event_cards) THEN <<Sleep>> ELSE <<>>)
             \o IbizaCardSteps(event_cards, idx + 1)

\* IbizaSpotlightScraper.scrape_events: the listing request, then the cards
\* unless the listing could not be fetched
IbizaSteps(event_cards, listing_ok) ==
    <<Request(IbizaEventsUrl)>> \o (IF listing_ok THEN IbizaCardSteps(event_cards, 1) ELSE <<>>)

\* FluccWanneScraper.scrape_events: every fetch_page call in order, no sleep
FluccSteps(resp, pg) ==
    LET log == FluccScrapeEvents(resp, pg).log
    IN  [i \in 1..Len(log) |-> Request(log[i].url)]

\* run the steps on a clock: time.sleep(self.delay) advances it by Delay, a
\* request is sent at once and blocks until its response is there
RECURSIVE Timed(_, _, _, _, _)
Timed(steps, clock, slept, durations, n) ==
    IF steps = <<>> THEN <<>>
    ELSE IF Head(steps).kind = "sleep"
         THEN Timed(Tail(steps), clock + Delay, slept + Delay, durations, n)
         ELSE <<[url |-> Head(steps).url, at |-> clock, slept |-> slept,
                 done |-> clock + durations[n]]>>
              \o Timed(Tail(steps), clock + durations[n], 0, durations, n + 1)

NumRequests(steps) == Cardinality({i \in 1..Len(steps) : steps[i].kind = "request"})

RateStart == timeline = <<>> /\ rate_scraper = "none"

\* IbizaSpotlightScraper.scrape_events
IbizaScrapeEvents ==
    /\ rate_scraper = "none"
    /\ \E event_cards \in SeqsUpTo(Cards, MaxCards), listing_ok \in BOOLEAN :
        \E steps \in {IbizaSteps(event_cards, listing_ok)} :
        \E durations \in [1..NumRequests(steps) -> Durations] :
            /\ timeline' = Timed(steps, 0, 0, durations, 1)
            /\ rate_scraper' = "ibiza"

\* FluccWanneScraper.scrape_events
FluccScrapeEventsTimed ==
    /\ rate_scraper = "none"
    /\ \E resp \in {[u \in ListingUrls \cup Urls |-> p] : p \in {AlwaysOk, AlwaysError}},
       evs \in SeqsUpTo(SiteEvents, MaxSiteEvents) :
        \E pg \in PagesOf(evs) :
        \E steps \in {FluccSteps(resp, pg)} :
        \E durations \in [1..NumRequests(steps) -> Durations] :
            /\ timeline' = Timed(steps, 0, 0, durations, 1)
            /\ rate_scraper' = "flucc"

RateNext == IbizaScrapeEvents \/ FluccScrapeEventsTimed

\* C12: every request of a scrape is preceded by the delay, consecutive
\* requests are at least the delay apart, and a request is sent only after the
\* response of the one before has arrived.
C12_MinimumDelay ==
    \A i \in 1..Len(timeline) :
        /\ timeline[i].slept >= Delay
        /\ i > 1 => /\ timeline[i].at - timeline[i - 1].at >= Delay
                    /\ timeline[i].at >= timeline[i - 1].done

(***************************************************************************)
(* Numeric dates D.M[.Y] and D/M[/Y] handed to parse_german_date, and the  *)
(* same text found in a title by _extract_date_from_title.                 *)
(***************************************************************************)
\* (\d{1,2})[./](\d{1,2}) matched at position i
TitleDateAt(s, i) ==
    LET l1 == IF DigitsThen(s, i, ".") > 0 THEN DigitsThen(s, i, ".") ELSE DigitsThen(s, i, "/")
        j  == i + l1 + 1
        l2 == Min(DigitRun(s, j), 2)
    IN  IF l1 > 0 /\ l2 > 0
        THEN Groups(SubSeq(s, i, i + l1 - 1), SubSeq(s, j, j + l2 - 1), <<>>)
        ELSE NoMatch

RECURSIVE TitleSearchFrom(_, _)
TitleSearchFrom(s, i) ==
    IF i > Len(s) THEN NoMatch
    ELSE IF TitleDateAt(s, i).ok THEN TitleDateAt(s, i)
    ELSE TitleSearchFrom(s, i + 1)

\* "If month/day has passed, use next year"
InferYearByDay(month, day, today) ==
    IF month < today[2] \/ (month = today[2] /\ day < today[3]) THEN today[1] + 1 ELSE today[1]

\* GenericVenueScraper._extract_date_from_title; <<>> stands for None
extract_date_from_title(title, today) ==
    IF title = <<>> THEN <<>>
    ELSE LET m == TitleSearchFrom(title, 1)
         IN  IF ~m.ok THEN <<>>
             ELSE LET day   == IntOf(m.g[1])
                      month == IntOf(m.g[2])
                  IN  IsoDate(InferYearByDay(month, day, today), month, day)

\* days, months and years a listing may print, valid and invalid
PrintedDays == {0, 1, 9, 15, 31, 32}

PrintedMonths == {0, 1, 5, 12, 13}

PrintedYears == {<<>>, <<"2", "5">>, <<"1", "9">>, <<"0", "0">>, <<"2", "0", "2", "5">>, <<"2", "0", "1", "9">>}

Separator(shape) == IF shape = "dot" THEN <<".">> ELSE <<"/">>

NumericText(d) ==
    Decimal(d.day) \o Separator(d.shape) \o Decimal(d.month)
        \o (IF d.year = <<>> THEN <<>> ELSE Separator(d.shape) \o d.year)

ParseStart ==
    /\ now \in {<<NowYear, 1, 20>>, <<NowYear, 11, 20>>}
    /\ date_in \in [shape : {"dot", "slash"}, day : PrintedDays, month : PrintedMonths,
                    year : PrintedYears]
    /\ date_text = NumericText(date_in)
    /\ start_date = <<>>
    /\ date_pc = "text"

\* the date is looked for in the title of the event
ExtractDateFromTitle ==
    /\ date_pc = "text"
    /\ start_date' = extract_date_from_title(date_text, now)
    /\ date_pc' = "title"
    /\ UNCHANGED <<now, date_in, date_text>>

ParseNext == ParseDate \/ ExtractDateFromTitle

\* the year the text means: 2000 + YY for two digits, NoYear if none is printed
PrintedYear(y) == IF y = <<>> THEN NoYear ELSE IF Len(y) = 2 THEN 2000 + IntOf(y) ELSE IntOf(y)

\* C15: a date whose month is outside 1..12, whose day is outside 1..31 or
\* whose year is below 2020 is rejected (null), so every date the parsers
\* return, the date-from-title path included, has month in 1..12, day in 1..31
\* and year >= 2020.
C15_RangeChecked ==
    date_pc \in {"parsed", "title"} =>
        /\ (\/ date_in.month \notin 1..12
            \/ date_in.day \notin 1..31
            \/ (date_in.year # <<>> /\ PrintedYear(date_in.year) < MinYear)) => start_date = <<>>
        /\ start_date # <<>> =>
              /\ IsoFields(start_date)[2] \in 1..12
              /\ IsoFields(start_date)[3] \in 1..31
              /\ IsoFields(start_date)[1] >= MinYear

\* C16: a valid numeric date D.M.Y or D/M/Y with a two-digit year YY parses to
\* year 2000+YY, with a four-digit year to that year, month and day as given.
C16_TwoDigitYear ==
    (/\ date_pc = "parsed"
     /\ date_in.year # <<>>
     /\ date_in.month \in 1..12
     /\ date_in.day \in 1..31
     /\ PrintedYear(date_in.year) >= MinYear) =>
        start_date = IsoDate(PrintedYear(date_in.year), date_in.month, date_in.day)

(***************************************************************************)
(* BaseVenueScraper.parse_time: two patterns tried in order on the         *)
(* lower-cased text, the first match of each, a range check, formatting.   *)
(***************************************************************************)
\* the word w stands in s at position i
WordAt(s, i, w) == i + Len(w) - 1 <= Len(s) /\ SubSeq(s, i, i + Len(w) - 1) = w

\* (?:doors?|einlass|start|beginn) at position i: the length matched, 0 if none
TimePrefixAt(s, i) ==
    IF WordAt(s, i, <<"d", "o", "o", "r", "s">>) THEN 5
    ELSE IF WordAt(s, i, <<"d", "o", "o", "r">>) THEN 4
    ELSE IF WordAt(s, i, <<"e", "i", "n", "l", "a", "s", "s">>) THEN 7
    ELSE IF WordAt(s, i, <<"s", "t", "a", "r", "t">>) THEN 5
    ELSE IF WordAt(s, i, <<"b", "e", "g", "i", "n", "n">>) THEN 6
    ELSE 0

\* length of the run of [:\s] starting at i
RECURSIVE ColonSpaceRun(_, _)
ColonSpaceRun(s, i) ==
    IF i <= Len(s) /\ (s[i] = ":" \/ IsSpace(s[i])) THEN 1 + ColonSpaceRun(s, i + 1) ELSE 0

\* (\d{1,2}):(\d{2}) matched at position i; a trailing \s*(?:uhr)? always matches
ClockAt(s, i) ==
    LET l1 == DigitsThen(s, i, ":")
        j  == i + l1 + 1
    IN  IF l1 > 0 /\ DigitRun(s, j) >= 2
        THEN Groups(SubSeq(s, i, i + l1 - 1), SubSeq(s, j, j + 1), <<>>)
        ELSE NoMatch

\* (?:doors?|einlass|start|beginn)[:\s]+(\d{1,2}):(\d{2}) matched at position i
PrefixedClockAt(s, i) ==
    LET lp == TimePrefixAt(s, i)
        ls == ColonSpaceRun(s, i + lp)
    IN  IF lp > 0 /\ ls > 0 THEN ClockAt(s, i + lp + ls) ELSE NoMatch

TimePatternAt(p, s, i) == IF p = 1 THEN PrefixedClockAt(s, i) ELSE ClockAt(s, i)

\* re.search: the match at the leftmost position
RECURSIVE TimeSearchFrom(_, _, _)
TimeSearchFrom(p, s, i) ==
    IF i > Len(s) THEN NoMatch
    ELSE IF TimePatternAt(p, s, i).ok THEN TimePatternAt(p, s, i)
    ELSE TimeSearchFrom(p, s, i + 1)

NumTimePatterns == 2

\* f"{hour:02d}:{minute:02d}"
Clock(hour, minute) == ZeroPad(hour, 2) \o <<":">> \o ZeroPad(minute, 2)

\* the loop over time_patterns without the range check
RECURSIVE TimeFromUnchecked(_, _)
TimeFromUnchecked(p, s) ==
    IF p > NumTimePatterns THEN <<>>
    ELSE LET m == TimeSearchFrom(p, s, 1)
         IN  IF m.ok THEN Clock(IntOf(m.g[1]), IntOf(m.g[2]))
             ELSE TimeFromUnchecked(p + 1, s)

\* the loop over time_patterns from pattern p on; <<>> stands for None
RECURSIVE TimeFrom(_, _)
TimeFrom(p, s) ==
    IF p > NumTimePatterns THEN <<>>
    ELSE LET m == TimeSearchFrom(p, s, 1)
         IN  IF m.ok /\ IntOf(m.g[1]) \in 0..23 /\ IntOf(m.g[2]) \in 0..59
             THEN Clock(IntOf(m.g[1]), IntOf(m.g[2]))
             ELSE TimeFrom(p + 1, s)

\* BaseVenueScraper.parse_time
parse_time(text) == IF text = <<>> THEN <<>> ELSE TimeFrom(1, Lower(text))

\* hours and minutes a listing may print, valid and invalid
PrintedHours == {0, 9, 23, 24, 25, 99}

PrintedMinutes == {0, 15, 59, 60, 99}

TimePrefixes ==
    {<<>>, <<"D", "o", "o", "r", "s">>, <<"d", "o", "o", "r">>,
     <<"E", "i", "n", "l", "a", "s", "s">>, <<"S", "t", "a", "r", "t">>,
     <<"B", "e", "g", "i", "n", "n">>}

PrefixSeparators == {<<":", " ">>, <<" ">>, <<":">>}

\* a bare time printed before the prefixed one, "Show 20:00, Einlass: 19:00"
LeadTimes == {<<>>, <<"2", "0", ":", "0", "0", " ">>}

UhrSuffix == <<" ", "U", "h", "r">>

TimeInputs ==
    {t \in [lead : LeadTimes, prefix : TimePrefixes, sep : PrefixSeparators,
            hour : PrintedHours, minute : PrintedMinutes, pad : BOOLEAN, uhr : BOOLEAN] :
        t.prefix = <<>> => (t.lead = <<>> /\ t.sep = <<" ">>)}

TimeText(t) ==
    t.lead \o t.prefix \o (IF t.prefix = <<>> THEN <<>> ELSE t.sep)
        \o (IF t.pad THEN ZeroPad(t.hour, 2) ELSE Decimal(t.hour))
        \o <<":">> \o ZeroPad(t.minute, 2)
        \o (IF t.uhr THEN UhrSuffix ELSE <<>>)

TimeIdle ==
    /\ time_in = <<>>
    /\ time_text = <<>>
    /\ start_time = <<>>
    /\ time_pc = "idle"

TimeStart ==
    /\ time_in \in TimeInputs
    /\ time_text = TimeText(time_in)
    /\ start_time = <<>>
    /\ time_pc = "text"

ParseTime ==
    /\ time_pc = "text"
    /\ start_time' = parse_time(time_text)
    /\ time_pc' = "parsed"
    /\ UNCHANGED <<time_in, time_text>>

TimeNext == ParseTime

\* "HH:MM" with 00 <= HH <= 23 and 00 <= MM <= 59
IsClock(t) ==
    /\ Len(t) = 5
    /\ t[3] = ":"
    /\ \A i \in {1, 2, 4, 5} : IsDigit(t[i])
    /\ IntOf(SubSeq(t, 1, 2)) \in 0..23
    /\ IntOf(SubSeq(t, 4, 5)) \in 0..59

TimeInRange(t) == t.hour \in 0..23 /\ t.minute \in 0..59

\* the bare time a listing prints before the prefixed one, as parse_time
\* formats it; <<>> when there is none
LeadClock(t) == IF t.lead = <<>> THEN <<>> ELSE SubSeq(t.lead, 1, 5)

\* C17 as claimed: parse_time returns null or HH:MM with HH in 00..23 and MM
\* in 00..59; a bare HH:MM, "HH:MM Uhr" and Doors/Einlass/Start/Beginn: HH:MM
\* give that time (the prefixed one, also when a bare time is printed before
\* it), and the result is null when that time has its hour or minute out of
\* range.
C17_OutOfRangeIsNull ==
    time_pc = "parsed" =>
        /\ start_time = <<>> \/ IsClock(start_time)
        /\ TimeInRange(time_in) => start_time = Clock(time_in.hour, time_in.minute)
        /\ ~TimeInRange(time_in) => start_time = <<>>

\* C17 amended: as claimed, except that a prefixed time out of range makes
\* parse_time go on to the bare pattern: the result is then the first bare
\* time of the text, and null only when the text holds no other time.
C17_TimeInRange ==
    time_pc = "parsed" =>
        /\ start_time = <<>> \/ IsClock(start_time)
        /\ TimeInRange(time_in) => start_time = Clock(time_in.hour, time_in.minute)
        /\ ~TimeInRange(time_in) => start_time = LeadClock(time_in)

\* "20:00 Einlass: 25:00" gives "20:00"
C17_Witness ==
    /\ time_pc = "parsed"
    /\ time_in.lead # <<>>
    /\ time_in.prefix = <<"E", "i", "n", "l", "a", "s", "s">>
    /\ time_in.hour = 25
    /\ time_in.minute = 0
    /\ start_time = <<"2", "0", ":", "0", "0">>

(***************************************************************************)
(* Extraction: GenericVenueScraper.scrape_events over the cards its        *)
(* selectors find, and the sub-parsers of IntelligentVenueScraper for the  *)
(* pipe-separated lines of Celeste and the table rows of Chelsea.          *)
(***************************************************************************)
\* the day of the scrape
ScrapeDay == <<NowYear, 11, 20>>

\* the first position >= i at which the word w stands in s, 0 if none
RECURSIVE FindFrom(_, _, _)
FindFrom(s, w, i) ==
    IF i + Len(w) - 1 > Len(s) THEN 0
    ELSE IF WordAt(s, i, w) THEN i
    ELSE FindFrom(s, w, i + 1)

\* n digits stand in s at position i
DigitsAt(s, i, n) == DigitRun(s, i) >= n

\* ---- GenericVenueScraper
\* "Check if date is in title": only when the date element gave no date
ItemDate(title, date, date_in_title) ==
    IF date = <<>> /\ date_in_title /\ title # <<>>
    THEN extract_date_from_title(title, ScrapeDay)
    ELSE date

\* _parse_event_item: the text of the title, date and time elements of one
\* card, <<>> when the selector finds no element
ParseEventItem(item, date_in_title) ==
    [title |-> Strip(item.title),
     date  |-> ItemDate(Strip(item.title), parse_german_date(Strip(item.date), ScrapeDay),
                        date_in_title),
     time  |-> parse_time(Strip(item.time))]

\* if event_data and event_data.get('title'): events.append(event_data)
Titled(event_data) == IF event_data.title # <<>> THEN <<event_data>> ELSE <<>>

\* the loop of scrape_events over the cards
RECURSIVE GenericEvents(_, _)
GenericEvents(event_items, date_in_title) ==
    IF event_items = <<>> THEN <<>>
    ELSE Titled(ParseEventItem(Head(event_items), date_in_title))
             \o GenericEvents(Tail(event_items), date_in_title)

\* ---- IntelligentVenueScraper._parse_celeste_format
\* (\d{1,2})-(\d{1,2}) matched at position i
DashDateAt(s, i) ==
    LET l1 == DigitsThen(s, i, "-")
        j  == i + l1 + 1
        l2 == Min(DigitRun(s, j), 2)
    IN  IF l1 > 0 /\ l2 > 0
        THEN Groups(SubSeq(s, i, i + l1 - 1), SubSeq(s, j, j + l2 - 1), <<>>)
        ELSE NoMatch

\* re.search: the leftmost position of a match, 0 if none
RECURSIVE DashDateFrom(_, _)
DashDateFrom(s, i) ==
    IF i > Len(s) THEN 0
    ELSE IF DashDateAt(s, i).ok THEN i
    ELSE DashDateFrom(s, i + 1)

\* (\d{2}:\d{2})-\d{2}:\d{2} matched at position i
TimeSpanAt(s, i) ==
    /\ DigitsAt(s, i, 2) /\ CharAt(s, i + 2) = ":" /\ DigitsAt(s, i + 3, 2)
    /\ CharAt(s, i + 5) = "-"
    /\ DigitsAt(s, i + 6, 2) /\ CharAt(s, i + 8) = ":" /\ DigitsAt(s, i + 9, 2)

RECURSIVE TimeSpanFrom(_, _)
TimeSpanFrom(s, i) ==
    IF i > Len(s) THEN 0
    ELSE IF TimeSpanAt(s, i) THEN i
    ELSE TimeSpanFrom(s, i + 1)

MinLineLen == 10

\* the body of the loop over the lines: the event of one line, if any
CelesteLine(line) ==
    IF (\A i \in 1..Len(line) : line[i] # "|") \/ Len(line) < MinLineLen THEN <<>>
    ELSE LET at == DashDateFrom(line, 1)
         IN  IF at = 0 THEN <<>>
             ELSE LET day   == IntOf(DashDateAt(line, at).g[1])
                      month == IntOf(DashDateAt(line, at).g[2])
                      t     == TimeSpanFrom(line, 1)
                  IN  <<[title |-> Strip(SubSeq(line, 1, at - 1)),
                         date  |-> IsoDate(InferYear(month, ScrapeDay), month, day),
                         time  |-> IF t = 0 THEN <<>> ELSE SubSeq(line, t, t + 4)]>>

RECURSIVE parse_celeste_format(_)
parse_celeste_format(lines) ==
    IF lines = <<>> THEN <<>>
    ELSE CelesteLine(Head(lines)) \o parse_celeste_format(Tail(lines))

\* ---- IntelligentVenueScraper._parse_chelsea_format
\* (\d{1,2})\.(\d{1,2})\. matched at position i
DotDateAt(s, i) ==
    LET l1 == DigitsThen(s, i, ".")
        j  == i + l1 + 1
        l2 == DigitsThen(s, j, ".")
    IN  IF l1 > 0 /\ l2 > 0
        THEN Groups(SubSeq(s, i, i + l1 - 1), SubSeq(s, j, j + l2 - 1), <<>>)
        ELSE NoMatch

RECURSIVE DotDateFrom(_, _)
DotDateFrom(s, i) ==
    IF i > Len(s) THEN 0
    ELSE IF DotDateAt(s, i).ok THEN i
    ELSE DotDateFrom(s, i + 1)

VVK == <<"V", "V", "K", ":">>

Doors == <<"D", "o", "o", "r", "s", ":">>

\* re.split(r'VVK:|Doors:', s)[0]
BeforeMarker(s) ==
    LET v == FindFrom(s, VVK, 1)
        d == FindFrom(s, Doors, 1)
        f == IF v = 0 THEN d ELSE IF d = 0 THEN v ELSE Min(v, d)
    IN  IF f = 0 THEN s ELSE SubSeq(s, 1, f - 1)

\* Doors:\s*(\d+)h matched at position i: the digits, <<>> if no match
DoorsHourAt(s, i) ==
    LET j == i + Len(Doors) + SpaceRun(s, i + Len(Doors))
        n == DigitRun(s, j)
    IN  IF WordAt(s, i, Doors) /\ n > 0 /\ CharAt(s, j + n) = "h"
        THEN SubSeq(s, j, j + n - 1)
        ELSE <<>>

RECURSIVE DoorsHourFrom(_, _)
DoorsHourFrom(s, i) ==
    IF i > Len(s) THEN <<>>
    ELSE IF DoorsHourAt(s, i) # <<>> THEN DoorsHourAt(s, i)
    ELSE DoorsHourFrom(s, i + 1)

MinCells == 2

\* the body of the loop over the rows: the event of one row, if any
ChelseaRow(cells) ==
    IF Len(cells) < MinCells THEN <<>>
    ELSE LET date_cell    == Strip(cells[1])
             details_cell == Strip(cells[2])
             at           == DotDateFrom(date_cell, 1)
         IN  IF at = 0 THEN <<>>
             ELSE LET day   == IntOf(DotDateAt(date_cell, at).g[1])
                      month == IntOf(DotDateAt(date_cell, at).g[2])
                      h     == DoorsHourFrom(details_cell, 1)
                  IN  <<[title |-> Strip(BeforeMarker(details_cell)),
                         date  |-> IsoDate(InferYear(month, ScrapeDay), month, day),
                         time  |-> IF h = <<>> THEN <<>> ELSE h \o <<":", "0", "0">>]>>

RECURSIVE parse_chelsea_format(_)
parse_chelsea_format(rows) ==
    IF rows = <<>> THEN <<>>
    ELSE ChelseaRow(Head(rows)) \o parse_chelsea_format(Tail(rows))

\* ---- what the pages show
MaxItems == 3

ItemCard(title, date, time) == [title |-> title, date |-> date, time |-> time]

\* cards with and without a title element, with a date, with a date the parser
\* does not read, with the date in the title only
EventItems ==
    {ItemCard(<<"G", "i", "g">>, <<"2", "2", ".", "1", "1", ".", "2", "0", "2", "5">>, <<"D", "o", "o", "r", "s", " ", "2", "3", ":", "0", "0">>),
     ItemCard(<<"F", "e", "s", "t">>, <<"b", "a", "l", "d">>, <<>>),
     ItemCard(<<"G", "i", "g", " ", "2", "1", ".", "1", "1", ".">>, <<>>, <<>>),
     ItemCard(<<" ">>, <<"2", "2", ".", "1", "1", ".", "2", "0", "2", "5">>, <<>>),
     ItemCard(<<>>, <<"2", "2", ".", "1", "1", ".", "2", "0", "2", "5">>, <<"2", "3", ":", "0", "0">>),
     ItemCard(<<"B", "a", "l", "l">>, <<>>, <<>>)}

\* lines of the Celeste page: "Event Name DD-MM | HH:MM-HH:MM| Club", the same
\* without a name, a line without a date and a line without a pipe
CelesteLines ==
    {<<"G", "i", "g", " ", "1", "5", "-", "1", "1", " ", "|", " ", "2", "2", ":", "0", "0", "-", "0", "6", ":", "0", "0", "|", " ", "C", "l", "u", "b">>,
     <<"1", "5", "-", "1", "1", " ", "|", " ", "2", "2", ":", "0", "0", "-", "0", "6", ":", "0", "0", "|", " ", "C", "l", "u", "b">>,
     <<"C", "l", "u", "b", " ", "|", " ", "o", "p", "e", "n", " ", "d", "a", "i", "l", "y">>,
     <<"G", "i", "g", " ", "1", "5", "-", "1", "1">>}

\* rows of the Chelsea table: the texts of the cells
ChelseaRows ==
    {<<<<"S", "o", ",", " ", "2", "7", ".", "0", "7", ".">>, <<"B", "a", "n", "d", " ", "V", "V", "K", ":", " ", "2", "0", " ", "D", "o", "o", "r", "s", ":", " ", "2", "0", "h">>>>,
     <<<<"S", "o", ",", " ", "2", "7", ".", "0", "7", ".">>, <<"D", "o", "o", "r", "s", ":", " ", "2", "0", "h">>>>,
     <<<<"S", "o", ",", " ", "2", "7", ".", "0", "7", ".">>>>,
     <<<<"t", "b", "a">>, <<"B", "a", "n", "d">>>>}

Documents ==
    [kind : {"generic"}, items : SeqsUpTo(EventItems, MaxItems), date_in_title : BOOLEAN]
        \cup [kind : {"celeste"}, items : SeqsUpTo(CelesteLines, MaxItems), date_in_title : {FALSE}]
        \cup [kind : {"chelsea"}, items : SeqsUpTo(ChelseaRows, MaxItems), date_in_title : {FALSE}]

ExtractIdle ==
    /\ document = <<>>
    /\ extracted = <<>>
    /\ extract_pc = "idle"

ExtractStart ==
    /\ document \in Documents
    /\ extracted = <<>>
    /\ extract_pc = "page"

\* GenericVenueScraper.scrape_events on a page that was fetched, for a venue
\* configured without detail pages
GenericScrapeEvents ==
    /\ extract_pc = "page"
    /\ document.kind = "generic"
    /\ extracted' = GenericEvents(document.items, document.date_in_title)
    /\ extract_pc' = "done"
    /\ UNCHANGED document

ParseCelesteFormat ==
    /\ extract_pc = "page"
    /\ document.kind = "celeste"
    /\ extracted' = parse_celeste_format(document.items)
    /\ extract_pc' = "done"
    /\ UNCHANGED document

ParseChelseaFormat ==
    /\ extract_pc = "page"
    /\ document.kind = "chelsea"
    /\ extracted' = parse_chelsea_format(document.items)
    /\ extract_pc' = "done"
    /\ UNCHANGED document

ExtractNext == GenericScrapeEvents \/ ParseCelesteFormat \/ ParseChelseaFormat

\* C18: every event an extraction path returns (the selector-based cards, the
\* pipe-delimited lines, the inline table rows) has a non-empty title; a card
\* or record without a title is discarded.
C18_TitleRequired ==
    extract_pc = "done" => \A i \in 1..Len(extracted) : extracted[i].title # <<>>

(***************************************************************************)
(* What a run hands to the publisher, and which publisher it takes.        *)
(***************************************************************************)
\* the events of the listing the upcoming-events filter has to keep
Upcoming(events) == {i \in 1..Len(events) : events[i].date = NoDate \/ events[i].date >= Today}

Undated(events) == {i \in 1..Len(events) : events[i].date = NoDate}

\* C19: an event whose date could not be parsed is kept with a null date: the
\* upcoming-events filter does not remove it, and a run that saves publishes
\* it with the others to the publisher it selected (the batch posted to the
\* ingestion endpoint holds every upcoming event of the listing).
C19_UndatedRetained ==
    (/\ last.op = "cli"
     /\ ~last.dry_run
     /\ credentials = "ok"
     /\ scraper.variant = "base"
     /\ Undated(listing) # {}) =>
        /\ last.events_count = Cardinality(Upcoming(listing))
        /\ UNIFIED_PIPELINE_AVAILABLE => last.posted = last.events_count

\* C20: the publisher is selected by the configuration alone: with the
\* ingestion endpoint configured and no dry-run requested, a run with at least
\* one event posts the batch; the direct upsert is used only without the
\* endpoint and with a store client; with neither, every event is an error.
C20_StrategyByConfiguration ==
    (last.op = "cli" /\ ~last.dry_run /\ last.events_count > 0) =>
        /\ UNIFIED_PIPELINE_AVAILABLE => last.live_posts > 0
        /\ last.direct => (~UNIFIED_PIPELINE_AVAILABLE /\ credentials = "ok")
        /\ (~UNIFIED_PIPELINE_AVAILABLE /\ credentials # "ok") =>
              (~last.direct /\ last.live_posts = 0 /\ last.stats.errors = last.events_count)

(***************************************************************************)
(* One publisher run: BaseVenueScraper.run / GrelleForelleScraper.run or   *)
(* run_all_scrapers.main for one venue, on a listing whose events carry    *)
(* the optional fields as the scrapers leave them                          *)
(***************************************************************************)
MaxPublish == 2

\* an event dictionary with the keys 'time' and 'price' as given
PublishedEvent(title, date, time, price, url) ==
    [title |-> title, date |-> date, time |-> time, price |-> price, detail_url |-> url]

\* what a page lists: events without and with a time and a price, with and
\* without a detail URL, dated and undated
PublishEvents ==
    {Event("t1", Today, "u1"),
     Event("t2", Today, NULL),
     PublishedEvent("t1", Today, "21:00", "10", "u2"),
     Event("t2", Today, "u1"),
     PublishedEvent("t1", NoDate, "21:00", NULL, NULL)}

Listings(cls) == SeqsUpTo({ScrapedBy(cls, e) : e \in PublishEvents}, MaxPublish)

\* a row of the events table from an earlier run, not linked yet
EarlierRow ==
    [id |-> 1, venue_id |-> NULL, title |-> "t1", start_date_time |-> <<Today, "23:00">>,
     source_url |-> "u1", custom_venue_name |-> CameraClub, city |-> Wien]

PublishStores == {<<>>, <<EarlierRow>>}

\* the store credentials: set, not set, or refused by create_client
PublishCredentials == {"ok", "missing", "invalid"}

NoAsk == [dry_run |-> FALSE, fails |-> {}, resp |-> NoResponse, failIds |-> {}, before |-> <<>>]

\* the run saves with the store client
DirectSave(dry_run) ==
    /\ HasClient(dry_run, credentials)
    /\ scraper.variant = "gf" \/ ~UNIFIED_PIPELINE_AVAILABLE

\* the faults that can make a difference to the run
PublishSaveFaults(dry_run) ==
    IF DirectSave(dry_run) THEN SUBSET (1..Len(FutureEvents(listing))) ELSE {{}}

PublishResponses(dry_run) ==
    IF UNIFIED_PIPELINE_AVAILABLE /\ scraper.variant = "base" /\ ~SelfDryRun(dry_run, credentials)
    THEN {NoResponse} \cup {r \in PipelineResponses : r.ok}
    ELSE {NoResponse}

PublishLinkFaults(dry_run) ==
    IF DirectSave(dry_run) /\ venues # <<>>
    THEN {{}, 1..(Len(store) + Len(FutureEvents(listing)))}
    ELSE {{}}

PublishIdle == asked = NoAsk

PublishStart ==
    /\ scraper \in ScraperClasses
    /\ listing \in Listings(scraper)
    /\ UNIFIED_PIPELINE_AVAILABLE \in BOOLEAN
    /\ credentials \in PublishCredentials
    /\ venues \in RunRegistries
    /\ store \in PublishStores
    /\ last = NoOp
    /\ asked = NoAsk

\* python website-scrapers/<venue>.py [--dry-run], once
PublishCli ==
    /\ last.op = "none"
    /\ \E dry_run \in BOOLEAN :
       \E fails \in PublishSaveFaults(dry_run), resp \in PublishResponses(dry_run),
          failIds \in PublishLinkFaults(dry_run) :
          \E r \in {RunScraper(scraper, dry_run, UNIFIED_PIPELINE_AVAILABLE, credentials,
                               store, venues, listing, fails, resp, failIds)} :
              /\ store' = r.store
              /\ last' = LastOf("cli", dry_run, r, fails)
              /\ asked' = [dry_run |-> dry_run, fails |-> fails, resp |-> resp,
                           failIds |-> failIds, before |-> store]
              /\ UNCHANGED <<scraper, listing, UNIFIED_PIPELINE_AVAILABLE, credentials, venues>>

\* python website-scrapers/run_all_scrapers.py [--dry-run] --venues <venue>,
\* once.  The driver's own link pass creates its store client and also runs
\* after the ingestion endpoint reported an insertion.
PublishDriver ==
    /\ last.op = "none"
    /\ \E dry_run \in BOOLEAN :
       \E fails \in PublishSaveFaults(FALSE), resp \in PublishResponses(FALSE),
          failIds \in LinkFaults :
          \E r \in {RunAll(scraper, dry_run, UNIFIED_PIPELINE_AVAILABLE, credentials,
                           store, venues, listing, fails, resp, failIds)} :
              /\ store' = r.store
              /\ last' = LastOf("driver", dry_run, r, fails)
              /\ asked' = [dry_run |-> dry_run, fails |-> fails, resp |-> resp,
                           failIds |-> failIds, before |-> store]
              /\ UNCHANGED <<scraper, listing, UNIFIED_PIPELINE_AVAILABLE, credentials, venues>>

PublishNext == PublishCli \/ PublishDriver

\* the scraper was constructed with dry_run false
ConstructedLive == last.op = "driver" \/ (last.op = "cli" /\ ~asked.dry_run)

\* C21: when the scraper is constructed with dry_run false and the store
\* credentials are absent or the client cannot be created, the run completes in
\* dry-run mode: extraction is reported, nothing is inserted or updated, nothing
\* is sent for writing and the store is as it was
C21_MissingCredentialsDowngrade ==
    (ConstructedLive /\ credentials # "ok") =>
        /\ last.events_count = Len(FutureEvents(listing))
        /\ last.stats = NoStats
        /\ last.success
        /\ last.posted = 0
        /\ store = asked.before

C21_Witness ==
    /\ last.op = "cli"
    /\ ~asked.dry_run
    /\ credentials = "missing"
    /\ UNIFIED_PIPELINE_AVAILABLE
    /\ last.events_count = 2
    /\ last.stats.inserted = 0
    /\ last.stats.updated = 0
    /\ store = asked.before

\* the positions of the batch whose save raises: a store call fails or the
\* event cannot be prepared
FailingSaves ==
    {i \in 1..Len(FutureEvents(listing)) :
        i \in asked.fails \/ PrepareRaises(scraper, FutureEvents(listing)[i])}

\* C22: persistence failures are counted and never abort the batch.  After a
\* direct upsert the error count is the number of events whose save raised and
\* every other event of the batch was inserted or updated; after a failed
\* ingestion call inserted = updated = 0 and errors is the number of events
\* submitted; either way the run returns with success false
C22_FailuresCountedNotFatal ==
    /\ last.direct =>
          /\ last.stats.errors = Cardinality(FailingSaves)
          /\ last.stats.inserted + last.stats.updated = last.events_count - Cardinality(FailingSaves)
          /\ Len(store) = Len(asked.before) + last.stats.inserted
          /\ FailingSaves # {} => ~last.success
          /\ ~last.raised
    /\ (last.posted > 0 /\ ~asked.resp.ok) =>
          /\ last.stats = [inserted |-> 0, updated |-> 0, errors |-> last.posted]
          /\ ~last.success

\* a batch of The Loft with a healthy store: the event without a price
\* cannot be prepared and is counted, the event with a price is saved
C22_Witness ==
    /\ last.direct
    /\ scraper = TheLoftScraper
    /\ asked.fails = {}
    /\ last.events_count = 2
    /\ PrepareRaises(scraper, FutureEvents(listing)[1])
    /\ last.stats.errors = 1
    /\ last.stats.inserted + last.stats.updated = 1
    /\ ~last.success

\* C26: every non-dry run that saved at least one event (inserted or updated)
\* with the store client runs the link pass after the upsert
C26_LinkAfterEverySave ==
    (last.op # "none" /\ last.direct /\ last.stats.inserted + last.stats.updated > 0) =>
        last.link_ran

\* the times the listing shows, as parse_time hands them on
ExtractedTimes == {e.time : e \in PublishEvents} \ {TimeAbsent, NULL}

\* C27: every stored event that has a date carries HH:MM in its start
\* date-time: an extracted time or the default 23:00
C27_StartDateTimeWellFormed ==
    \A i \in 1..Len(store) :
        store[i].start_date_time # NoStart =>
            store[i].start_date_time[2] \in ExtractedTimes \cup {"23:00"}

\* C28: when no store call fails, direct upsert inserts or updates every
\* event handed to it and counts no error
C28_HealthyStoreSavesAll ==
    (last.direct /\ asked.fails = {}) =>
        /\ last.stats.errors = 0
        /\ last.stats.inserted + last.stats.updated = last.events_count

\* C29: the driver exits with status 1 exactly when the venue's scraper
\* finished with save errors, and its error total counts them
C29_DriverReportsFailure ==
    last.op = "driver" =>
        /\ last.exit_code = (IF last.stats.errors > 0 THEN 1 ELSE 0)
        /\ last.total_errors = last.stats.errors

(***************************************************************************)
(* Detail pages: _enrich_from_detail_page of the generic scraper and of    *)
(* the dedicated scrapers, and the selector lists they walk.  A document   *)
(* is what its selectors find: the stripped text of an element, or no      *)
(* element.  None and the empty text are both <<>>: every test the         *)
(* handlers make on a field is a truthiness test.                          *)
(***************************************************************************)
Elem(text) == [found |-> TRUE, text |-> text]

NoElem == [found |-> FALSE, text |-> <<>>]

\* fetch_page returned None
NoPage == [ok |-> FALSE]

\* the dictionary _parse_event_item / _parse_event_link start from
EmptyEvent ==
    [title |-> <<>>, date |-> <<>>, time |-> <<>>, description |-> <<>>, image_url |-> <<>>,
     detail_url |-> <<>>, ticket_url |-> <<>>, price |-> <<>>, artists |-> <<>>]

StartsWith(s, w) == WordAt(s, 1, w)

Contains(s, w) == FindFrom(s, w, 1) # 0

\* s.rstrip(c) and s.lstrip(c)
RECURSIVE RStripChar(_, _)
RStripChar(s, c) == IF s # <<>> /\ s[Len(s)] = c THEN RStripChar(SubSeq(s, 1, Len(s) - 1), c) ELSE s

RECURSIVE LStripChar(_, _)
LStripChar(s, c) == IF s # <<>> /\ Head(s) = c THEN LStripChar(Tail(s), c) ELSE s

Http == <<"h", "t", "t", "p">>

\* BASE_URL.rstrip('/') + '/' + src.lstrip('/') unless src starts with http
AbsoluteUrl(base, src) ==
    IF StartsWith(src, Http) THEN src ELSE RStripChar(base, "/") \o <<"/">> \o LStripChar(src, "/")

\* BASE_URL.rstrip('/') + href unless href starts with http
AppendedUrl(base, href) ==
    IF StartsWith(href, Http) THEN href ELSE RStripChar(base, "/") \o href

ParagraphBreak == <<"\n", "\n">>

\* sep.join(parts)
RECURSIVE Join(_, _)
Join(parts, sep) ==
    IF parts = <<>> THEN <<>>
    ELSE IF Len(parts) = 1 THEN parts[1]
    ELSE parts[1] \o sep \o Join(Tail(parts), sep)

\* s[:n]
Truncate(s, n) == SubSeq(s, 1, Min(n, Len(s)))

\* ---- BaseVenueScraper.extract_price
FreeWords == {<<"f", "r", "e", "e">>, <<"g", "r", "a", "t", "i", "s">>, <<"e", "i", "n", "t", "r", "i", "t", "t", " ", "f", "r", "e", "i">>, <<"f", "r", "e", "i", "e", "r", " ", "e", "i", "n", "t", "r", "i", "t", "t">>}

EuroSign == <<"€">>

\* (?:€|EUR|Euro) at position i: the length matched, 0 if none
CurrencyAt(s, i) ==
    IF WordAt(s, i, EuroSign) THEN 1
    ELSE IF WordAt(s, i, <<"E", "U", "R">>) THEN 3
    ELSE IF WordAt(s, i, <<"E", "u", "r", "o">>) THEN 4
    ELSE 0

\* (?:€|EUR)? of the third pattern
ShortCurrencyAt(s, i) ==
    IF WordAt(s, i, EuroSign) THEN 1 ELSE IF WordAt(s, i, <<"E", "U", "R">>) THEN 3 ELSE 0

\* [.,]\d{2} at position i
DecimalsAt(s, i) == CharAt(s, i) \in {".", ","} /\ DigitRun(s, i + 1) >= 2

\* (\d+(?:[.,]\d{2})?) at position i, as long as it can be: its length
AmountAt(s, i) ==
    LET n == DigitRun(s, i)
    IN  IF n = 0 THEN 0 ELSE IF DecimalsAt(s, i + n) THEN n + 3 ELSE n

\* the amount at position i is followed by \s*(?:€|EUR|Euro): the length of
\* the amount, 0 if there is no match at i
AmountThenCurrencyAt(s, i) ==
    LET n    == DigitRun(s, i)
        full == AmountAt(s, i)
    IN  IF n = 0 THEN 0
        ELSE IF CurrencyAt(s, i + full + SpaceRun(s, i + full)) > 0 THEN full
        ELSE IF CurrencyAt(s, i + n + SpaceRun(s, i + n)) > 0 THEN n
        ELSE 0

\* group 1 of price pattern p matched at position i, <<>> if it does not match
PriceGroupAt(p, s, i) ==
    CASE p = 1 ->
            LET c == CurrencyAt(s, i)
                a == i + c + SpaceRun(s, i + c)
            IN  IF c > 0 /\ AmountAt(s, a) > 0 THEN SubSeq(s, a, a + AmountAt(s, a) - 1) ELSE <<>>
      [] p = 2 ->
            IF AmountThenCurrencyAt(s, i) > 0 THEN SubSeq(s, i, i + AmountThenCurrencyAt(s, i) - 1)
            ELSE <<>>
      [] p = 3 ->
            LET w  == IF WordAt(s, i, <<"a", "b">>) THEN 2 ELSE IF WordAt(s, i, <<"f", "r", "o", "m">>) THEN 4 ELSE 0
                sp == SpaceRun(s, i + w)
                c  == i + w + sp
                a  == c + ShortCurrencyAt(s, c) + SpaceRun(s, c + ShortCurrencyAt(s, c))
            IN  IF w > 0 /\ sp > 0 /\ AmountAt(s, a) > 0
                THEN SubSeq(s, a, a + AmountAt(s, a) - 1)
                ELSE <<>>

\* re.search(pattern, text).group(1), <<>> if there is no match
RECURSIVE PriceSearchFrom(_, _, _)
PriceSearchFrom(p, s, i) ==
    IF i > Len(s) THEN <<>>
    ELSE IF PriceGroupAt(p, s, i) # <<>> THEN PriceGroupAt(p, s, i)
    ELSE PriceSearchFrom(p, s, i + 1)

NumPricePatterns == 3

\* price.replace(',', '.')
CommaToDot(s) == [i \in 1..Len(s) |-> IF s[i] = "," THEN "." ELSE s[i]]

RECURSIVE PriceFrom(_, _)
PriceFrom(p, s) ==
    IF p > NumPricePatterns THEN <<>>
    ELSE IF PriceSearchFrom(p, s, 1) # <<>>
         THEN <<"a", "b", " ">> \o EuroSign \o CommaToDot(PriceSearchFrom(p, s, 1))
         ELSE PriceFrom(p + 1, s)

extract_price(text) ==
    IF text = <<>> THEN <<>>
    ELSE IF \E kw \in FreeWords : Contains(Lower(text), kw) THEN <<"F", "r", "e", "e", " ", "/", " ", "G", "r", "a", "t", "i", "s">>
    ELSE PriceFrom(1, text)

\* ---- GenericVenueScraper._enrich_from_detail_page
Thumb == <<"t", "h", "u", "m", "b">>

\* page: description = the texts of the elements the description selector
\* finds, ticket_href = the href of the ticket link (<<>>: no link, no href),
\* price = the price element, text = soup.get_text(), image_src = the src of
\* the image element (<<>>: none).  A selector the venue does not configure
\* finds nothing.
GenericDescribed(event_data, page) ==
    LET desc_parts == SelectSeq(page.description, LAMBDA t : t # <<>>)
    IN  IF desc_parts # <<>>
        THEN [event_data EXCEPT !.description = Join(desc_parts, ParagraphBreak)]
        ELSE event_data

GenericTicketed(event_data, page) ==
    IF page.ticket_href # <<>> THEN [event_data EXCEPT !.ticket_url = page.ticket_href]
    ELSE event_data

GenericPriced(event_data, page) ==
    IF page.price.found THEN [event_data EXCEPT !.price = extract_price(page.price.text)]
    ELSE event_data

GenericTimed(event_data, page) ==
    IF event_data.time = <<>> THEN [event_data EXCEPT !.time = parse_time(page.text)]
    ELSE event_data

GenericImaged(event_data, page, base) ==
    IF page.image_src # <<>> /\ ~Contains(AbsoluteUrl(base, page.image_src), Thumb)
    THEN [event_data EXCEPT !.image_url = AbsoluteUrl(base, page.image_src)]
    ELSE event_data

GenericEnrichFromDetailPage(event_data, page, base) ==
    IF event_data.detail_url = <<>> \/ ~page.ok THEN event_data
    ELSE CHOOSE imaged \in
            {GenericImaged(timed, page, base) :
                timed \in {GenericTimed(priced, page) :
                    priced \in {GenericPriced(ticketed, page) :
                        ticketed \in {GenericTicketed(described, page) :
                            described \in {GenericDescribed(event_data, page)}}}}} : TRUE

\* the loop body of GenericVenueScraper.scrape_events for one parsed item:
\* the events it appends
GenericScrapeItem(event_data, use_detail_pages, page, base) ==
    IF event_data.title = <<>> THEN <<>>
    ELSE IF use_detail_pages /\ event_data.detail_url # <<>>
         THEN <<GenericEnrichFromDetailPage(event_data, page, base)>>
         ELSE <<event_data>>

\* ---- RhizScraper._parse_event_link and _enrich_from_detail_page
RhizBaseUrl == <<"h", "t", "t", "p", ":", "/", "/", "r">>

MinLinkText == 5

\* what _parse_event_link has before it visits the detail page
RhizListed(link) ==
    LET link_text == Strip(link.text)
    IN  [EmptyEvent EXCEPT
            !.detail_url = AppendedUrl(RhizBaseUrl, link.href),
            !.title = IF /\ link_text # <<>>
                         /\ Len(link_text) > MinLinkText
                         /\ ~StartsWith(link_text, <<"d", "o", " ">>)
                         /\ ~StartsWith(link_text, <<"f", "r", " ">>)
                      THEN link_text ELSE <<>>]

\* (\d{1,2})[\.\/](\d{1,2})[\.\/](\d{2,4}) at position i: the length matched
DigitsThenSep(s, i) ==
    IF DigitRun(s, i) >= 2 /\ CharAt(s, i + 2) \in {".", "/"} THEN 2
    ELSE IF DigitRun(s, i) >= 1 /\ CharAt(s, i + 1) \in {".", "/"} THEN 1
    ELSE 0

NumericDateAt(s, i) ==
    LET l1 == DigitsThenSep(s, i)
        j  == i + l1 + 1
        l2 == DigitsThenSep(s, j)
        k  == j + l2 + 1
    IN  IF l1 > 0 /\ l2 > 0 /\ DigitRun(s, k) >= 2
        THEN l1 + 1 + l2 + 1 + Min(DigitRun(s, k), 4)
        ELSE 0

\* re.search(...).group(0), <<>> if there is no match
RECURSIVE NumericDateFrom(_, _)
NumericDateFrom(s, i) ==
    IF i > Len(s) THEN <<>>
    ELSE IF NumericDateAt(s, i) > 0 THEN SubSeq(s, i, i + NumericDateAt(s, i) - 1)
    ELSE NumericDateFrom(s, i + 1)

MinDescription == 20

MaxDescription == 500

Logo == <<"l", "o", "g", "o">>

RhizTitled(event_data, page) ==
    IF event_data.title = <<>> /\ page.h1.found THEN [event_data EXCEPT !.title = page.h1.text]
    ELSE event_data

RhizDated(event_data, page, today) ==
    IF page.date_elem.found
    THEN [event_data EXCEPT !.date = parse_german_date(page.date_elem.text, today),
                            !.time = parse_time(page.date_elem.text)]
    ELSE event_data

\* `if date_match: event_data['date'] = self.parse_german_date(date_match.group(1))`
DatedBy(event_data, date_match, today) ==
    IF date_match # <<>>
    THEN [event_data EXCEPT !.date = parse_german_date(date_match, today)]
    ELSE event_data

RhizDatedFromText(event_data, page, today) ==
    IF event_data.date = <<>>
    THEN DatedBy(event_data, NumericDateFrom(page.text, 1), today)
    ELSE event_data

RhizDescribed(event_data, page) ==
    IF page.desc.found /\ Len(page.desc.text) > MinDescription
    THEN [event_data EXCEPT !.description = Truncate(page.desc.text, MaxDescription)]
    ELSE event_data

RhizImaged(event_data, page) ==
    IF page.image_src # <<>> /\ ~Contains(Lower(page.image_src), Logo)
    THEN [event_data EXCEPT !.image_url = AbsoluteUrl(RhizBaseUrl, page.image_src)]
    ELSE event_data

\* page.ticket_href: the href of the first link whose href or text names
\* tickets, <<>> if there is none
RhizTicketed(event_data, page) ==
    IF page.ticket_href # <<>> THEN [event_data EXCEPT !.ticket_url = page.ticket_href]
    ELSE event_data

RhizEnrichFromDetailPage(event_data, page, today) ==
    IF event_data.detail_url = <<>> \/ ~page.ok THEN event_data
    ELSE CHOOSE ticketed \in
            {RhizTicketed(imaged, page) :
                imaged \in {RhizImaged(described, page) :
                    described \in {RhizDescribed(redated, page) :
                        redated \in {RhizDatedFromText(dated, page, today) :
                            dated \in {RhizDated(titled, page, today) :
                                titled \in {RhizTitled(event_data, page)}}}}}} : TRUE

\* "return event_data if event_data.get('title') and event_data.get('date') else None"
TitledAndDated(event_data) ==
    IF event_data.title # <<>> /\ event_data.date # <<>> THEN <<event_data>> ELSE <<>>

\* _parse_event_link: the events scrape_events appends for the link
RhizParseEventLink(link, page, today) ==
    CHOOSE returned \in
        {TitledAndDated(enriched_data) :
            enriched_data \in {RhizEnrichFromDetailPage(event_data, page, today) :
                event_data \in {RhizListed(link)}}} : TRUE

\* ---- FluccWanneScraper._enrich_from_detail_page
FluccBaseUrl == <<"h", "t", "t", "p", ":", "/", "/", "f">>

MinTitle == 5

TitleSeparator == <<" ", "-", " ">>

\* title_text.split(' - ')[1].strip() when there is more than one part, else <<>>
SecondPart(title_text) ==
    LET first == FindFrom(title_text, TitleSeparator, 1)
        rest  == SubSeq(title_text, first + Len(TitleSeparator), Len(title_text))
        next  == FindFrom(rest, TitleSeparator, 1)
    IN  IF first = 0 THEN [many |-> FALSE, part |-> <<>>]
        ELSE [many |-> TRUE,
              part |-> Strip(IF next = 0 THEN rest ELSE SubSeq(rest, 1, next - 1))]

FluccTitled(event_data, page) ==
    IF event_data.title = <<>> \/ Len(event_data.title) < MinTitle
    THEN IF page.h1.found THEN [event_data EXCEPT !.title = page.h1.text]
         ELSE IF page.title.found /\ SecondPart(page.title.text).many
              THEN [event_data EXCEPT !.title = SecondPart(page.title.text).part]
              ELSE event_data
    ELSE event_data

\* (\d{1,2}\.\d{1,2}\.\d{4}) at position i: the length matched
LongDateAt(s, i) ==
    LET l1 == DigitsThen(s, i, ".")
        j  == i + l1 + 1
        l2 == DigitsThen(s, j, ".")
        k  == j + l2 + 1
    IN  IF l1 > 0 /\ l2 > 0 /\ DigitRun(s, k) >= 4 THEN l1 + 1 + l2 + 1 + 4 ELSE 0

RECURSIVE LongDateFrom(_, _)
LongDateFrom(s, i) ==
    IF i > Len(s) THEN <<>>
    ELSE IF LongDateAt(s, i) > 0 THEN SubSeq(s, i, i + LongDateAt(s, i) - 1)
    ELSE LongDateFrom(s, i + 1)

FluccDated(event_data, page, today) ==
    IF event_data.date = <<>> /\ page.title.found
    THEN DatedBy(event_data, LongDateFrom(page.title.text, 1), today)
    ELSE event_data

FluccTimed(event_data, page) ==
    IF page.more_info.found /\ event_data.time = <<>>
    THEN [event_data EXCEPT !.time = parse_time(page.more_info.text)]
    ELSE event_data

MaxParagraphs == 3

FluccDescribed(event_data, page) ==
    LET desc_parts == SelectSeq(page.paragraphs, LAMBDA t : t # <<>> /\ Len(t) > MinDescription)
    IN  IF desc_parts # <<>>
        THEN [event_data EXCEPT
                 !.description = Join(SubSeq(desc_parts, 1, Min(MaxParagraphs, Len(desc_parts))),
                                      ParagraphBreak)]
        ELSE event_data

FluccImaged(event_data, page) ==
    IF event_data.image_url = <<>> /\ page.image_src # <<>> /\ ~Contains(Lower(page.image_src), Logo)
    THEN [event_data EXCEPT !.image_url = AppendedUrl(FluccBaseUrl, page.image_src)]
    ELSE event_data

\* page.ticket_href as for Rhiz
FluccTicketed(event_data, page) ==
    IF page.ticket_href # <<>> THEN [event_data EXCEPT !.ticket_url = page.ticket_href]
    ELSE event_data

FluccEnrichFromDetailPage(event_data, page, today) ==
    IF event_data.detail_url = <<>> \/ ~page.ok THEN event_data
    ELSE CHOOSE ticketed \in
            {FluccTicketed(imaged, page) :
                imaged \in {FluccImaged(described, page) :
                    described \in {FluccDescribed(timed, page) :
                        timed \in {FluccTimed(dated, page) :
                            dated \in {FluccDated(titled, page, today) :
                                titled \in {FluccTitled(event_data, page)}}}}}} : TRUE

\* the end of FluccWanneScraper._parse_event_link: the detail page is visited
\* when the link gave a URL and a date
FluccParseEventLink(event_data, page, today) ==
    CHOOSE returned \in
        {TitledAndDated(enriched_data) :
            enriched_data \in {IF event_data.detail_url # <<>> /\ event_data.date # <<>>
                               THEN FluccEnrichFromDetailPage(event_data, page, today)
                               ELSE event_data}} : TRUE

\* ---- scrapers/ibiza_spotlight.py: get_event_details and the merge of
\* start_scraping(include_details=True)
\* page.title, .description, .venue, .date, .time: _get_text of the element,
\* <<>> when the page has none.  Not modelled: the keys photos, djs, tickets,
\* source and scraped_at, which the merge sets as well.
get_event_details(event_url, page) ==
    IF ~page.ok THEN [ok |-> FALSE]
    ELSE [ok          |-> TRUE,
          url         |-> event_url,
          title       |-> page.title,
          description |-> page.description,
          venue       |-> page.venue,
          date        |-> page.date,
          time        |-> page.time]

\* event.update(details)
UpdateEvent(event, details) ==
    IF ~details.ok THEN event
    ELSE [event EXCEPT !.url = details.url,
                       !.title = details.title,
                       !.description = details.description,
                       !.venue = details.venue,
                       !.date = details.date,
                       !.time = details.time]

IbizaDetailedEvent(event, page) ==
    IF event.url # <<>> THEN <<UpdateEvent(event, get_event_details(event.url, page))>>
    ELSE <<event>>

\* ---- selector lists.  matches[k] is what selector k of the list finds.
\* PratersaunaScraper._parse_event_item, "try multiple selectors" for the
\* title: the first selector that finds an element ends the loop
RECURSIVE SelectedTitle(_, _)
SelectedTitle(matches, k) ==
    IF k > Len(matches) THEN <<>>
    ELSE IF matches[k].found THEN matches[k].text
    ELSE SelectedTitle(matches, k + 1)

AllDigits(s, from, to) == \A i \in from..to : IsDigit(s[i])

\* re.match(r'^\d{1,2}\.\d{1,2}\.?$', s)
IsDateOnly(s) ==
    \E a \in 1..2, b \in 1..2, d \in 0..1 :
        /\ Len(s) = a + 1 + b + d
        /\ AllDigits(s, 1, a)
        /\ s[a + 1] = "."
        /\ AllDigits(s, a + 2, a + 1 + b)
        /\ d = 1 => s[Len(s)] = "."

\* str.strip('.')
RECURSIVE StripDots(_)
StripDots(s) ==
    IF s = <<>> THEN s
    ELSE IF Head(s) = "." THEN StripDots(Tail(s))
    ELSE IF s[Len(s)] = "." THEN StripDots(SubSeq(s, 1, Len(s) - 1))
    ELSE s

EventPath == <<"/", "e", "v", "e", "n", "t", "/">>

\* the characters of s from i up to the next "/"
RECURSIVE SlugFrom(_, _)
SlugFrom(s, i) ==
    IF i > Len(s) \/ s[i] = "/" THEN <<>> ELSE <<s[i]>> \o SlugFrom(s, i + 1)

\* re.search(r'/event/([^/]+)', url).group(1), <<>> without a match
RECURSIVE EventSlug(_, _)
EventSlug(url, i) ==
    IF i + Len(EventPath) > Len(url) THEN <<>>
    ELSE IF SubSeq(url, i, i + Len(EventPath) - 1) = EventPath /\ url[i + Len(EventPath)] # "/"
         THEN SlugFrom(url, i + Len(EventPath))
         ELSE EventSlug(url, i + 1)

\* str.capitalize()
Capitalize(word) ==
    IF word = <<>> THEN word ELSE <<UpperChar(Head(word))>> \o Lower(Tail(word))

\* slug.replace('-', ' ')
Unhyphenate(slug) == [i \in 1..Len(slug) |-> IF slug[i] = "-" THEN " " ELSE slug[i]]

MinSlugTitle == 3

\* PratersaunaScraper._extract_title_from_url; <<>> stands for None
extract_title_from_url(url) ==
    LET words == Split(Strip(Unhyphenate(EventSlug(url, 1))))
        title == JoinSpace([i \in 1..Len(words) |-> Capitalize(words[i])])
    IN  IF url # <<>> /\ Len(title) > MinSlugTitle THEN title ELSE <<>>

\* the first text of item.select('h2, h3, h4, strong, .event-name') that is
\* not empty and not only a date
RECURSIVE OtherHeading(_)
OtherHeading(headings) ==
    IF headings = <<>> THEN <<>>
    ELSE IF Head(headings) # <<>> /\ ~IsDateOnly(Strip(Head(headings))) THEN Head(headings)
    ELSE OtherHeading(Tail(headings))

MinAlt == 3

\* the alt text of img[alt], when it is long enough and not only a date
AltTitle(img) ==
    IF img.found /\ Len(Strip(img.text)) > MinAlt /\ ~IsDateOnly(Strip(img.text))
    THEN Strip(img.text) ELSE <<>>

\* the name the card gives for a title that is only a date: from the URL
\* slug, else from another heading, else from the image
BetterTitle(detail_url, headings, img) ==
    IF extract_title_from_url(detail_url) # <<>> THEN extract_title_from_url(detail_url)
    ELSE IF OtherHeading(headings) # <<>> THEN OtherHeading(headings)
    ELSE AltTitle(img)

Pratersauna == <<"P", "r", "a", "t", "e", "r", "s", "a", "u", "n", "a">>

\* f"Pratersauna {title.strip('.')} - {better_title}", or
\* f"Pratersauna Event {title}" when the card has no name
DatedTitle(title, better) ==
    IF better # <<>>
    THEN Pratersauna \o <<" ">> \o StripDots(title) \o <<" ", "-", " ">> \o better
    ELSE Pratersauna \o <<" ", "E", "v", "e", "n", "t", " ">> \o title

\* the h2 and the h3.event-title the title selectors found are the first
\* elements of item.select('h2, h3, h4, strong, .event-name')
Found(matches, k) == IF matches[k].found THEN <<matches[k].text>> ELSE <<>>

Headings(card) == Found(card.matches, 1) \o Found(card.matches, 2) \o card.others

\* event_data['title'] of PratersaunaScraper._parse_event_item
PratersaunaTitle(card) ==
    IF IsDateOnly(Strip(SelectedTitle(card.matches, 1)))
    THEN DatedTitle(SelectedTitle(card.matches, 1),
                    BetterTitle(card.detail_url, Headings(card), card.img))
    ELSE SelectedTitle(card.matches, 1)

\* return event_data if event_data['title'] else None: the titles of the
\* events the card gives
PratersaunaParsed(card) ==
    IF PratersaunaTitle(card) = <<>> THEN <<>> ELSE <<PratersaunaTitle(card)>>

MinMeaningful == 50

\* ibiza-spotlight.py _enrich_from_detail_page, description selectors: the
\* first element with more than 50 characters ends the loop; it replaces the
\* description when there is none or when it is longer
RECURSIVE IbizaDescription(_, _, _)
IbizaDescription(description, matches, k) ==
    IF k > Len(matches) THEN description
    ELSE IF matches[k].found /\ matches[k].text # <<>> /\ Len(matches[k].text) > MinMeaningful
         THEN IF description = <<>> \/ Len(matches[k].text) > Len(description)
              THEN matches[k].text
              ELSE description
         ELSE IbizaDescription(description, matches, k + 1)

\* ---- what the list pages and the detail pages show
PartyTitle == <<"P", "a", "r", "t", "y", "!">>

RaveTitle == <<"R", "a", "v", "e">>

NightTitle == <<"N", "i", "g", "h", "t", " ", "2">>

ListDate == IsoDate(NowYear, 11, 27)

ListTime == <<"2", "1", ":", "0", "0">>

DetailDateText == <<"2", "8", ".", "1", "1", ".", "2", "0", "2", "5">>

DetailTimeText == <<"2", "2", ":", "3", "0", " ", "U", "h", "r">>

EventUrl == <<"h", "t", "t", "p", ":", "/", "/", "x", "/", "e">>

TicketUrl == <<"h", "t", "t", "p", ":", "/", "/", "t">>

ImageUrl == <<"h", "t", "t", "p", ":", "/", "/", "x", "/", "i">>

LongText ==
    <<"A", " ", "l", "o", "n", "g", " ", "n", "i", "g", "h", "t", " ", "o", "f", " ", "t", "e",
      "c", "h", "n", "o", " ", "a", "n", "d", " ", "h", "o", "u", "s", "e", ".">>

LongerText ==
    <<"T", "w", "o", " ", "f", "l", "o", "o", "r", "s", ",", " ", "s", "i", "x", " ", "D", "J",
      "s", ",", " ", "d", "o", "o", "r", "s", " ", "a", "t", " ", "t", "e", "n", ",", " ", "m",
      "u", "s", "i", "c", " ", "u", "n", "t", "i", "l", " ", "t", "h", "e", " ", "m", "o", "r",
      "n", "i", "n", "g", ".">>

LongestText ==
    <<"T", "w", "o", " ", "f", "l", "o", "o", "r", "s", ",", " ", "s", "i", "x", " ", "D", "J",
      "s", ",", " ", "d", "o", "o", "r", "s", " ", "a", "t", " ", "t", "e", "n", ",", " ", "m",
      "u", "s", "i", "c", " ", "u", "n", "t", "i", "l", " ", "t", "h", "e", " ", "m", "o", "r",
      "n", "i", "n", "g", " ", "a", "n", "d", " ", "l", "a", "t", "e", "r", ".">>

ShortText == <<"C", "l", "u", "b">>

GenericBaseUrl == <<"h", "t", "t", "p", ":", "/", "/", "x", "/">>

ListedEvent(title, date, time, url) ==
    [EmptyEvent EXCEPT !.title = title, !.date = date, !.time = time, !.detail_url = url]

GenericPages ==
    {NoPage} \cup
    [ok : {TRUE},
     description : {<<>>, <<<<>>, LongText>>},
     ticket_href : {<<>>, TicketUrl},
     price : {NoElem, Elem(<<"€", "1", "0">>), Elem(<<"t", "b", "a">>)},
     text : {<<>>, DetailTimeText},
     image_src : {<<>>, <<"/", "i">>}]

GenericInputs ==
    [kind : {"generic"},
     event : {ListedEvent(t, d, tm, u) : t \in {<<>>, PartyTitle}, d \in {<<>>, ListDate},
                                          tm \in {<<>>, ListTime}, u \in {<<>>, EventUrl}},
     use_detail_pages : BOOLEAN,
     page : GenericPages]

RhizPages ==
    {NoPage} \cup
    [ok : {TRUE},
     h1 : {NoElem, Elem(NightTitle)},
     date_elem : {NoElem, Elem(DetailDateText \o <<" ">> \o DetailTimeText), Elem(<<"t", "b", "a">>)},
     text : {<<>>, <<"F", "r", " ", "2", "7", "/", "1", "1", "/", "2", "5">>},
     desc : {NoElem, Elem(LongText)},
     image_src : {<<>>, <<"/", "i">>},
     ticket_href : {<<>>, TicketUrl}]

RhizInputs ==
    [kind : {"rhiz"},
     link : [href : {<<"/", "e">>}, text : {PartyTitle, <<"G", "i", "g">>, <<"d", "o", " ", "2", "7", ".", "1", "1", ".">>, <<>>}],
     page : RhizPages]

FluccDetailPages ==
    {NoPage} \cup
    [ok : {TRUE},
     h1 : {NoElem, Elem(NightTitle), Elem(<<>>)},
     title : {NoElem, Elem(DetailDateText \o TitleSeparator \o NightTitle \o TitleSeparator \o <<"f", "l", "u", "c", "c">>)},
     more_info : {NoElem, Elem(DetailTimeText)},
     paragraphs : {<<>>, <<ShortText, LongText>>},
     image_src : {<<>>, <<"/", "i">>},
     ticket_href : {<<>>, TicketUrl}]

\* _parse_event_link keeps a title of more than three characters and visits
\* the detail page only when the link gave a date
FluccInputs ==
    [kind : {"flucc"},
     event : {[ListedEvent(t, ListDate, tm, EventUrl) EXCEPT !.image_url = i] :
                 t \in {PartyTitle, RaveTitle}, tm \in {<<>>, ListTime}, i \in {<<>>, ImageUrl}},
     page : FluccDetailPages]

IbizaPages ==
    {NoPage} \cup
    [ok : {TRUE},
     title : {<<>>, NightTitle},
     description : {<<>>, LongText},
     venue : {<<>>, <<"P", "a", "c", "h", "a">>},
     date : {<<>>, <<"2", "8", "/", "1", "1">>},
     time : {<<>>, <<"2", "2", ":", "3", "0">>}]

\* _extract_event_from_card: title, venue and date are there, the rest may be ''
IbizaInputs ==
    [kind : {"ibiza"},
     event : [title : {PartyTitle}, venue : {<<"P", "a", "c", "h", "a">>}, date : {<<"2", "7", "/", "1", "1">>},
              time : {<<>>, ListTime}, url : {<<>>, EventUrl}, description : {<<>>}],
     page : IbizaPages]

NumTitleSelectors == 5

NumDescriptionSelectors == 7

DateTitle == <<"2", "7", ".", "1", "1", ".">>

SlugUrl == <<"h", "t", "t", "p", ":", "/", "/", "x", "/", "e", "v", "e", "n", "t", "/",
             "b", "i", "g", "-", "R", "A", "V", "E", "/">>

ShortSlugUrl == <<"h", "t", "t", "p", ":", "/", "/", "x", "/", "e", "v", "e", "n", "t", "/", "a", "-", "b">>

\* a card of the events page: what each title selector finds, the absolute
\* URL of its link, the texts of its h4, strong and .event-name elements,
\* and its img[alt]
TitleInputs ==
    [kind : {"pratersauna-title"},
     matches : [1..NumTitleSelectors -> {NoElem, Elem(<<>>), Elem(PartyTitle), Elem(DateTitle)}],
     detail_url : {<<>>, SlugUrl, ShortSlugUrl},
     others : {<<>>, <<RaveTitle>>, <<<<"5", ".", "1", "2">>, RaveTitle>>},
     img : {NoElem, Elem(<<"D", "J">>), Elem(NightTitle)}]

DescriptionInputs ==
    [kind : {"ibiza-description"},
     description : {<<>>, LongestText},
     matches : [1..NumDescriptionSelectors -> {NoElem, Elem(ShortText), Elem(LongerText)}]]

EnrichIdle ==
    /\ detail_in = [kind |-> "none"]
    /\ enriched = <<>>
    /\ enrich_pc = "idle"

EnrichStart ==
    /\ detail_in \in GenericInputs \cup RhizInputs \cup FluccInputs
                         \cup IbizaInputs \cup TitleInputs \cup DescriptionInputs
    /\ enriched = <<>>
    /\ enrich_pc = "listed"

GenericEnrich ==
    /\ enrich_pc = "listed"
    /\ detail_in.kind = "generic"
    /\ enriched' = GenericScrapeItem(detail_in.event, detail_in.use_detail_pages, detail_in.page,
                                     GenericBaseUrl)
    /\ enrich_pc' = "done"
    /\ UNCHANGED detail_in

RhizEnrich ==
    /\ enrich_pc = "listed"
    /\ detail_in.kind = "rhiz"
    /\ enriched' = RhizParseEventLink(detail_in.link, detail_in.page, ScrapeDay)
    /\ enrich_pc' = "done"
    /\ UNCHANGED detail_in

FluccEnrich ==
    /\ enrich_pc = "listed"
    /\ detail_in.kind = "flucc"
    /\ enriched' = FluccParseEventLink(detail_in.event, detail_in.page, ScrapeDay)
    /\ enrich_pc' = "done"
    /\ UNCHANGED detail_in

IbizaEnrich ==
    /\ enrich_pc = "listed"
    /\ detail_in.kind = "ibiza"
    /\ enriched' = IbizaDetailedEvent(detail_in.event, detail_in.page)
    /\ enrich_pc' = "done"
    /\ UNCHANGED detail_in

SelectTitle ==
    /\ enrich_pc = "listed"
    /\ detail_in.kind = "pratersauna-title"
    /\ enriched' = PratersaunaParsed(detail_in)
    /\ enrich_pc' = "done"
    /\ UNCHANGED detail_in

SelectDescription ==
    /\ enrich_pc = "listed"
    /\ detail_in.kind = "ibiza-description"
    /\ enriched' = <<IbizaDescription(detail_in.description, detail_in.matches, 1)>>
    /\ enrich_pc' = "done"
    /\ UNCHANGED detail_in

EnrichNext ==
    \/ GenericEnrich
    \/ RhizEnrich
    \/ FluccEnrich
    \/ IbizaEnrich
    \/ SelectTitle
    \/ SelectDescription

\* the event as the list page gave it
ListPageEvent == IF detail_in.kind = "rhiz" THEN RhizListed(detail_in.link) ELSE detail_in.event

\* C23: when the fetch of the detail page fails, an event that has a title
\* from the list page is returned with exactly its list-page fields
C23_DetailFailureDegrades ==
    (/\ enrich_pc = "done"
     /\ detail_in.kind \in {"generic", "rhiz", "flucc"}
     /\ ~detail_in.page.ok
     /\ ListPageEvent.title # <<>>) =>
        enriched = <<ListPageEvent>>

ScalarFields == {"title", "date", "time", "price", "ticket_url"}

\* C24: a scalar field that is populated before the detail page is merged has
\* the same value afterwards
C24_EnrichmentKeepsPopulated ==
    (/\ enrich_pc = "done"
     /\ detail_in.kind \in {"generic", "ibiza"}
     /\ enriched # <<>>) =>
        \A f \in ScalarFields \cap DOMAIN detail_in.event :
            detail_in.event[f] # <<>> => enriched[1][f] = detail_in.event[f]

\* the text of the first selector, from selector k on, whose match has text
RECURSIVE FirstNonEmpty(_, _)
FirstNonEmpty(matches, k) ==
    IF k > Len(matches) THEN <<>>
    ELSE IF matches[k].found /\ matches[k].text # <<>> THEN matches[k].text
    ELSE FirstNonEmpty(matches, k + 1)

\* C25: the value a selector list extracts is the text of the first selector
\* whose match has non-empty text, and the field is absent only when no
\* selector has such a match (a title that is only a date is given a name
\* afterwards and is left aside here)
C25_FirstNonEmptySelector ==
    (/\ enrich_pc = "done"
     /\ detail_in.kind = "pratersauna-title"
     /\ ~IsDateOnly(FirstNonEmpty(detail_in.matches, 1))) =>
        enriched = IF FirstNonEmpty(detail_in.matches, 1) = <<>> THEN <<>>
                   ELSE <<FirstNonEmpty(detail_in.matches, 1)>>

(***************************************************************************)
(* Run records — backend/scrapers/models.py, backend/scrapers/views.py     *)
(***************************************************************************)

MaxRuns == 3

MaxClock == 3

\* a DateTimeField or FloatField with null=True that was never assigned
NoTime == -1

\* STATUS_CHOICES
STATUS_CHOICES == {"pending", "running", "completed", "failed", "cancelled"}

Terminal == STATUS_CHOICES \cap {"completed", "failed"}

\* ScraperRun.objects.create(scraper=..., status='pending', triggered_by=...)
ScraperRun(triggered_by) ==
    [status |-> "pending", started_at |-> NoTime, completed_at |-> NoTime,
     duration |-> NoTime, triggered_by |-> triggered_by]

NoRequest == [pc |-> "idle", run |-> 0, response |-> 0]

\* the JsonResponse or Response a view returned
Responded(code) == [pc |-> "idle", run |-> 0, response |-> code]

\* datetime.now(): the clock has moved on by some amount since it was last read
LaterTimes == {t \in wall_clock..MaxClock : t <= wall_clock + 1}

RecordIdle == run_table = <<>> /\ request = NoRequest /\ wall_clock = 0

RecordStart == RecordIdle

\* run_scraper_now up to the creation of the row: an inactive scraper is
\* refused with 400; a create that raises leaves no row and answers 500
RunScraperNow ==
    /\ request.pc = "idle"
    /\ Len(run_table) < MaxRuns
    /\ \E is_active \in BOOLEAN, created \in BOOLEAN :
        IF ~is_active
        THEN /\ request' = Responded(400)
             /\ UNCHANGED <<run_table, wall_clock>>
        ELSE IF ~created
        THEN /\ request' = Responded(500)
             /\ UNCHANGED <<run_table, wall_clock>>
        ELSE /\ run_table' = Append(run_table, ScraperRun("manual"))
             /\ request' = [pc |-> "created", run |-> Len(run_table) + 1, response |-> 0]
             /\ UNCHANGED wall_clock

\* run_scraper_now from import_module to the first run.save(): importing the
\* module, reading the class or constructing the scraper may raise, and the
\* except branch answers 500 without touching the row
StartRun ==
    /\ request.pc = "created"
    /\ \E constructed \in BOOLEAN, t \in LaterTimes :
        /\ wall_clock' = t
        /\ IF constructed
           THEN /\ run_table' = [run_table EXCEPT ![request.run].status = "running",
                                                   ![request.run].started_at = t]
                /\ request' = [request EXCEPT !.pc = "running"]
           ELSE /\ request' = Responded(500)
                /\ UNCHANGED run_table

StartScrapingOutcomes == {"success", "failure", "raises"}

\* run_scraper_now from start_scraping() to the response: the result is
\* written with completed_at and duration in one save; a raise answers 500
\* from the except branch without touching the row
FinishRun ==
    /\ request.pc = "running"
    /\ \E result \in StartScrapingOutcomes, t \in LaterTimes :
        /\ wall_clock' = t
        /\ IF result = "raises"
           THEN /\ request' = Responded(500)
                /\ UNCHANGED run_table
           ELSE /\ run_table' = [run_table EXCEPT
                       ![request.run].status = IF result = "success" THEN "completed" ELSE "failed",
                       ![request.run].completed_at = t,
                       ![request.run].duration = t - run_table[request.run].started_at]
                /\ request' = Responded(200)

\* api_run_scraper: the row is created and 202 is answered; nothing else is done
ApiRunScraper ==
    /\ Len(run_table) < MaxRuns
    /\ \E created \in BOOLEAN :
        /\ run_table' = IF created THEN Append(run_table, ScraperRun("api")) ELSE run_table
        /\ UNCHANGED <<request, wall_clock>>

RecordNext == RunScraperNow \/ StartRun \/ FinishRun \/ ApiRunScraper

\* a request that was accepted is served to its end
RecordFairness == WF_recordVars(StartRun) /\ WF_recordVars(FinishRun)

Moves == {<<"pending", "running">>, <<"running", "completed">>, <<"running", "failed">>}

\* rows are never removed, and a status changes only along Moves
StatusMoves ==
    [][/\ Len(run_table') >= Len(run_table)
       /\ \A i \in 1..Len(run_table) :
            run_table'[i].status # run_table[i].status =>
                <<run_table[i].status, run_table'[i].status>> \in Moves]_recordVars

\* completed_at and duration are set exactly on the rows with a terminal status
TerminalFields ==
    \A i \in 1..Len(run_table) :
        /\ run_table[i].status \in Terminal <=> run_table[i].completed_at # NoTime
        /\ run_table[i].status \in Terminal <=> run_table[i].duration # NoTime

\* every created row reaches a terminal status
EventuallyTerminal ==
    \A i \in 1..MaxRuns :
        (Len(run_table) >= i) ~> (Len(run_table) >= i /\ run_table[i].status \in Terminal)

\* C30: every ScraperRun created by a run trigger moves only along
\* pending -> running -> (completed | failed), completed_at and duration are
\* set exactly when the status is terminal, and the row eventually reaches a
\* terminal status, also when the import, the construction or the execution
\* of the scraper raises after the row was created
C30_RunRecordLifecycle == StatusMoves /\ []TerminalFields /\ EventuallyTerminal

(***************************************************************************)
(* Specifications                                                          *)
(***************************************************************************)
InitNormalize == NormStart /\ DedupIdle /\ DateIdle /\ RunIdle /\ StoreIdle /\ RaceIdle /\ FetchIdle /\ RateStart /\ TimeIdle /\ ExtractIdle /\ PublishIdle /\ EnrichIdle /\ RecordIdle

NextNormalize == NormNext /\ UNCHANGED <<dedupVars, dateVars, runVars, storeVars, raceVars, fetchVars, rateVars, timeVars, extractVars, pubVars, enrichVars, recordVars>>

SpecNormalize == InitNormalize /\ [][NextNormalize]_vars

InitDedup == DedupStart /\ NormIdle /\ DateIdle /\ RunIdle /\ StoreIdle /\ RaceIdle /\ FetchIdle /\ RateStart /\ TimeIdle /\ ExtractIdle /\ PublishIdle /\ EnrichIdle /\ RecordIdle

NextDedup == DedupNext /\ UNCHANGED <<normVars, dateVars, runVars, storeVars, raceVars, fetchVars, rateVars, timeVars, extractVars, pubVars, enrichVars, recordVars>>

SpecDedup == InitDedup /\ [][NextDedup]_vars

InitDate == DateStart /\ NormIdle /\ DedupIdle /\ RunIdle /\ StoreIdle /\ RaceIdle /\ FetchIdle /\ RateStart /\ TimeIdle /\ ExtractIdle /\ PublishIdle /\ EnrichIdle /\ RecordIdle

NextDate == DateNext /\ UNCHANGED <<normVars, dedupVars, runVars, storeVars, raceVars, fetchVars, rateVars, timeVars, extractVars, pubVars, enrichVars, recordVars>>

SpecDate == InitDate /\ [][NextDate]_vars

InitParse == ParseStart /\ NormIdle /\ DedupIdle /\ RunIdle /\ StoreIdle /\ RaceIdle /\ FetchIdle /\ RateStart /\ TimeIdle /\ ExtractIdle /\ PublishIdle /\ EnrichIdle /\ RecordIdle

NextParse == ParseNext /\ UNCHANGED <<normVars, dedupVars, runVars, storeVars, raceVars, fetchVars, rateVars, timeVars, extractVars, pubVars, enrichVars, recordVars>>

SpecParse == InitParse /\ [][NextParse]_vars

InitLink == LinkStart /\ RunIdle /\ NormIdle /\ DedupIdle /\ DateIdle /\ RaceIdle /\ FetchIdle /\ RateStart /\ TimeIdle /\ ExtractIdle /\ PublishIdle /\ EnrichIdle /\ RecordIdle

NextLink == LinkNext /\ UNCHANGED <<normVars, dedupVars, dateVars, runVars, raceVars, fetchVars, rateVars, timeVars, extractVars, pubVars, enrichVars, recordVars>>

SpecLink == InitLink /\ [][NextLink]_vars

InitRun == RunStart /\ NormIdle /\ DedupIdle /\ DateIdle /\ RaceIdle /\ FetchIdle /\ RateStart /\ TimeIdle /\ ExtractIdle /\ PublishIdle /\ EnrichIdle /\ RecordIdle

NextRun == RunNext /\ UNCHANGED <<normVars, dedupVars, dateVars, raceVars, fetchVars, rateVars, timeVars, extractVars, pubVars, enrichVars, recordVars>>

SpecRun == InitRun /\ [][NextRun]_vars

InitRace == RaceStart /\ NormIdle /\ DedupIdle /\ DateIdle /\ FetchIdle /\ RateStart /\ TimeIdle /\ ExtractIdle /\ PublishIdle /\ EnrichIdle /\ RecordIdle

NextRace == RaceNext /\ UNCHANGED <<normVars, dedupVars, dateVars, fetchVars, rateVars, timeVars, extractVars, pubVars, enrichVars, recordVars>>

SpecRace == InitRace /\ [][NextRace]_vars

InitFetch == FetchStart /\ NormIdle /\ DedupIdle /\ DateIdle /\ RaceIdle /\ RateStart /\ TimeIdle /\ ExtractIdle /\ PublishIdle /\ EnrichIdle /\ RecordIdle

NextFetch == FetchNext /\ UNCHANGED <<normVars, dedupVars, dateVars, raceVars, rateVars, timeVars, extractVars, pubVars, enrichVars, recordVars>>

SpecFetch == InitFetch /\ [][NextFetch]_vars

InitRate == RateStart /\ NormIdle /\ DedupIdle /\ DateIdle /\ RunIdle /\ StoreIdle /\ RaceIdle /\ FetchIdle /\ TimeIdle /\ ExtractIdle /\ PublishIdle /\ EnrichIdle /\ RecordIdle

otherVars == <<normVars, dedupVars, dateVars, runVars, storeVars, raceVars, fetchVars>>

NextRate == RateNext /\ UNCHANGED <<otherVars, timeVars, extractVars, pubVars, enrichVars, recordVars>>

SpecRate == InitRate /\ [][NextRate]_vars

InitTime == TimeStart /\ NormIdle /\ DedupIdle /\ DateIdle /\ RunIdle /\ StoreIdle /\ RaceIdle /\ FetchIdle /\ RateStart /\ ExtractIdle /\ PublishIdle /\ EnrichIdle /\ RecordIdle

NextTime == TimeNext /\ UNCHANGED <<normVars, dedupVars, dateVars, runVars, storeVars, raceVars, fetchVars, rateVars, extractVars, pubVars, enrichVars, recordVars>>

SpecTime == InitTime /\ [][NextTime]_vars

InitExtract == ExtractStart /\ TimeIdle /\ NormIdle /\ DedupIdle /\ DateIdle /\ RunIdle /\ StoreIdle /\ RaceIdle /\ FetchIdle /\ RateStart /\ PublishIdle /\ EnrichIdle /\ RecordIdle

NextExtract == ExtractNext /\ UNCHANGED <<normVars, dedupVars, dateVars, runVars, storeVars, raceVars, fetchVars, rateVars, timeVars, pubVars, enrichVars, recordVars>>

SpecExtract == InitExtract /\ [][NextExtract]_vars

InitPublish == PublishStart /\ ExtractIdle /\ TimeIdle /\ NormIdle /\ DedupIdle /\ DateIdle /\ RaceIdle /\ FetchIdle /\ RateStart /\ EnrichIdle /\ RecordIdle

NextPublish == PublishNext /\ UNCHANGED <<normVars, dedupVars, dateVars, raceVars, fetchVars, rateVars, timeVars, extractVars, enrichVars, recordVars>>

SpecPublish == InitPublish /\ [][NextPublish]_vars

InitEnrich == EnrichStart /\ RunIdle /\ StoreIdle /\ PublishIdle /\ ExtractIdle /\ TimeIdle /\ NormIdle /\ DedupIdle /\ DateIdle /\ RaceIdle /\ FetchIdle /\ RateStart /\ RecordIdle

NextEnrich == EnrichNext /\ UNCHANGED <<normVars, dedupVars, dateVars, runVars, storeVars, raceVars, fetchVars, rateVars, timeVars, extractVars, pubVars, recordVars>>

SpecEnrich == InitEnrich /\ [][NextEnrich]_vars

InitRecord == RecordStart /\ EnrichIdle /\ RunIdle /\ StoreIdle /\ PublishIdle /\ ExtractIdle /\ TimeIdle /\ NormIdle /\ DedupIdle /\ DateIdle /\ RaceIdle /\ FetchIdle /\ RateStart

NextRecord == RecordNext /\ UNCHANGED <<normVars, dedupVars, dateVars, runVars, storeVars, raceVars, fetchVars, rateVars, timeVars, extractVars, pubVars, enrichVars>>

SpecRecord == InitRecord /\ [][NextRecord]_vars

\* the same program with every accepted request served to its end
SpecRecordLive == SpecRecord /\ RecordFairness

\* a key as the specification describes it: lower case, trimmed, single spaces
IsCanonical(k) ==
    /\ \A i \in 1..Len(k) : ~IsUpper(k[i]) /\ k[i] # "\t"
    /\ k # <<>> => k[1] # " " /\ k[Len(k)] # " "
    /\ \A i \in 1..(Len(k) - 1) : ~(k[i] = " " /\ k[i + 1] = " ")

\* C10: names that differ only in letter case and in the amount of leading,
\* trailing or internal whitespace normalize to the same key, the key is lower
\* case, trimmed and single-spaced, and normalizing the key again returns it.
C10_NormalizeCanonical ==
    norm_pc = "normalized" =>
        /\ norm_key = normalize_venue_name(orig_name)
        /\ IsCanonical(norm_key)
        /\ norm_key2 = norm_key

\* a re-spelt name with an upper-case letter and a doubled internal space
C10_Witness ==
    /\ norm_pc = "normalized"
    /\ name # orig_name
    /\ name # norm_key
    /\ \E i \in 1..Len(name) : IsUpper(name[i])
    /\ \E i \in 2..(Len(name) - 2) :
          /\ ~IsSpace(name[i - 1]) /\ IsSpace(name[i])
          /\ IsSpace(name[i + 1]) /\ ~IsSpace(name[i + 2])
====
